---- MODULE Spec2Model ----
(***************************************************************************)
(* Model of the distributed lock family of the redisson Go client:        *)
(* RedissonLock (reentrant), RedissonMutex (non-reentrant), their common  *)
(* acquire/release loop in RedissonBaseLock and the watchdog renewal      *)
(* registry (ExpirationRenewalMap, expirationEntry, renewal timers).      *)
(*                                                                         *)
(* Time is counted in ticks of one watchdog period (lease / 3).  A step   *)
(* of a goroutine that does not block (a script round trip, a registry    *)
(* operation, a fired timer's callback) takes no time: Tick is enabled    *)
(* only when every goroutine is blocked or idle.  Every store script is   *)
(* one atomic step; every operation on the registry map or on an entry    *)
(* (each takes its own lock in the source) is one atomic step.            *)
(***************************************************************************)
EXTENDS Integers, Sequences, FiniteSets, TLC

\* ---- bounds of the model
\* goroutines that call Lock / LockContext / Unlock
NumTasks == 2
\* handles (GetLock / GetMutex results) on the one lock name; each has its own
\* ExpirationRenewalMap
NumHandles == 1
\* renewal timer goroutines alive at the same time: a renewExpiration that would
\* start one more waits for one of them to return
MaxTimers == 2
\* successful Lock calls a task makes without the matching Unlock
MaxHold == 2
\* messages kept on the channel of one subscription
MaxMsgs == 1

\* ---- program constants
\* the lease (watchDogTimeout), in ticks of lease/3
Lease == 3
\* a script's "no value" reply (redis.Nil, mapped to a nil *int64)
Nil == -1
\* a store call that returned a transport or context error
Err == -2

RenewPeriod == Lease \div 3

Tasks == 1..NumTasks
\* the owner tags the store can hold: getLockName of the goroutines of this process
\* and that of a goroutine of another process
Stranger == NumTasks + 1
Tags == Tasks \cup {Stranger}
Handles == 1..NumHandles
\* the handle of one more GetLock call for the same name; every handle has its own
\* ExpirationRenewalMap
Second == NumHandles + 1
AllHandles == Handles \cup {Second}
TimerIds == 1..MaxTimers
\* every handle can have one entry stored and every task one more in its hands
EntryIds == 1..(NumHandles + 1 + NumTasks)

Min(a, b) == IF a < b THEN a ELSE b
Max(a, b) == IF a > b THEN a ELSE b

VARIABLES
    kind,       \* "lock" (GetLock) or "mutex" (GetMutex): the flavour of the handle(s)
    hash,       \* reentrant lock key: owner tag (task) -> counter, 0 = field absent
    str,        \* mutex key: the owner tag stored, 0 = key absent
    ttl,        \* remaining time to live of the key in ticks, 0 = key absent
    storeUp,    \* the connection to the store works
    sub,        \* task -> its LockContext call has an open subscription
    msgs,       \* task -> messages pending on its subscription channel
    regMap,     \* handle -> entry stored under entryName in ExpirationRenewalMap, 0 = none
    ents,       \* entry -> [ids: ordered <<goroutine id, count>> pairs, cancel: timer or 0]
    timers,     \* timer goroutines started by renewExpiration
    pc,         \* task -> position in LockContext / UnlockContext
    hnd,        \* task -> handle the current call is made on
    ctx,        \* task -> context of the current LockContext: "none" | "live" | "done"
    wt,         \* task -> ticks left on the time.After of the current select
    ent,        \* task -> entry loaded by the registry operation in progress
    isNew,      \* task -> LoadOrStore stored a new entry
    res,        \* task -> result of the unlock script
    held,       \* task -> LockContext calls returned nil minus Unlock calls started
    ev,         \* <<task, what its call returned>> when the last step was a return
    a,          \* shared counter of the lock/increment/unlock scenario
    tmp,        \* task -> value of a read by the increment in progress
    phase       \* task -> progress in the scenario of the scenario specifications

store == <<kind, hash, str, ttl, storeUp>>
pubsub == <<sub, msgs>>
reg == <<regMap, ents, timers>>
task == <<pc, hnd, ctx, wt, ent, isNew, res, held>>
scen == <<a, tmp, phase>>

\* the rate limiter of one name (RedissonRateLimiter) and the goroutines that call it
VARIABLES
    cfg,        \* config hash: field -> decimal string stored, <<>> = field absent
    val,        \* value key -> <<>> (key absent) or <<available permits>>
    perm,       \* permits key -> members <<age in ms, permits>>, oldest first
    call,       \* caller -> its TryAcquirePermitsWithTimeout / AcquirePermits call
    ret,        \* what the call that returned in the last step returned
    grants,     \* client -> age in ms -> permits granted that long ago (a history)
    clk         \* milliseconds since the start of a timed scenario

limiter == <<cfg, val, perm, call, ret, grants, clk>>
locks == <<store, pubsub, reg, task, ev, scen>>

\* a client made by NewRedisson and a lock handle made from it
VARIABLES
    opts,                   \* the durations of the WithWatchDogTimeout options passed
    watchDogTimeout,        \* Redisson.watchDogTimeout in ms, <<>> = no client yet
    internalLockLeaseTime,  \* RedissonBaseLock.internalLockLeaseTime in ms, <<>> = no handle yet
    timerPeriod             \* duration of the timer renewExpiration made, <<>> = none yet

options == <<opts, watchDogTimeout, internalLockLeaseTime, timerPeriod>>

\* the key names derived from an object's name
VARIABLES
    nameArgs,   \* [prefix, name, suffix]: the strings prefixName / suffixName are called with
    nameOut     \* [op, key]: the call made last and the string it returned

naming == <<nameArgs, nameOut>>

\* all that the lock actions leave alone, and all that the limiter actions do
aside == <<limiter, options, naming>>
apart == <<locks, options, naming>>
vars == <<store, pubsub, reg, task, ev, scen, limiter, options, naming>>

\* ---------------------------------------------------------------- entries

NoEv == <<0, "none">>

EmptyEntry == [ids |-> <<>>, cancel |-> 0]

FreeTimer == [pc |-> "free", cd |-> 0, h |-> 0, ent |-> 0, gid |-> 0, cancelled |-> FALSE]

IndexOf(ids, g) ==
    IF \E i \in 1..Len(ids) : ids[i][1] = g
    THEN CHOOSE i \in 1..Len(ids) : ids[i][1] = g
    ELSE 0

\* expirationEntry.addGoroutineId: count + 1 in place, or append with count 1
addGoroutineId(ids, g) ==
    LET i == IndexOf(ids, g) IN
    IF i = 0 THEN Append(ids, <<g, 1>>)
    ELSE [ids EXCEPT ![i] = <<g, ids[i][2] + 1>>]

\* expirationEntry.removeGoroutineId: count - 1, the id deleted at 0
removeGoroutineId(ids, g) ==
    LET i == IndexOf(ids, g) IN
    IF i = 0 THEN ids
    ELSE IF ids[i][2] - 1 = 0
         THEN SubSeq(ids, 1, i - 1) \o SubSeq(ids, i + 1, Len(ids))
         ELSE [ids EXCEPT ![i] = <<g, ids[i][2] - 1>>]

hasNoThreads(ids) == Len(ids) = 0

\* expirationEntry.getFirstGoroutineId: 0 stands for the nil pointer
getFirstGoroutineId(ids) == IF Len(ids) = 0 THEN 0 ELSE ids[1][1]

\* Entries nobody references any more are garbage: they are reset, and a cancel
\* handle of a goroutine that has ended (calling it does nothing) reads as 0.
Norm(es, rm, te, ts) ==
    [e \in EntryIds |->
        IF (\E h \in AllHandles : rm[h] = e) \/ (\E t \in Tasks : te[t] = e)
           \/ (\E k \in TimerIds : ts[k].ent = e)
        THEN [es[e] EXCEPT !.cancel =
                 IF @ # 0 /\ ts[@].pc = "free" THEN 0 ELSE @]
        ELSE EmptyEntry]

Referenced(e) ==
    \/ \E h \in AllHandles : regMap[h] = e
    \/ \E t \in Tasks : ent[t] = e
    \/ \E k \in TimerIds : timers[k].ent = e

FreeEntries == {e \in EntryIds : ~Referenced(e)}
FreeTimers == {k \in TimerIds : timers[k].pc = "free"}
Smallest(S) == CHOOSE x \in S : \A y \in S : x <= y

\* calling an entry's cancelFunc: a goroutine still in its select returns through
\* ctx.Done(); one already in its callback goes on with a cancelled context
CancelTimer(ts, k) ==
    IF k = 0 THEN ts
    ELSE IF ts[k].pc = "wait" THEN [ts EXCEPT ![k] = FreeTimer]
    ELSE [ts EXCEPT ![k].cancelled = TRUE]

\* ---------------------------------------------------------------- scripts

KeyExists == IF kind = "lock" THEN \E t \in Tags : hash[t] > 0 ELSE str # 0

NoHash == [t \in Tags |-> 0]

\* a wrong RedissonLock.tryLockInner, which grants the key to every caller
RedissonLock_tryLockInner_always(g) ==
    [res |-> Nil, hash |-> [hash EXCEPT ![g] = @ + 1], str |-> str, ttl |-> Lease, pub |-> FALSE]

\* RedissonLock.tryLockInner: res = Nil (acquired) or the pttl of the key
RedissonLock_tryLockInner(g) ==
    IF \A t \in Tags : hash[t] = 0
    THEN [res |-> Nil, hash |-> [hash EXCEPT ![g] = 1], str |-> str, ttl |-> Lease, pub |-> FALSE]
    ELSE IF hash[g] > 0
    THEN [res |-> Nil, hash |-> [hash EXCEPT ![g] = @ + 1], str |-> str, ttl |-> Lease, pub |-> FALSE]
    ELSE [res |-> ttl, hash |-> hash, str |-> str, ttl |-> ttl, pub |-> FALSE]

\* a wrong RedissonMutex.tryLockInner, which grants the key to its owner again
RedissonMutex_tryLockInner_reentrant(g) ==
    IF str = 0 \/ str = g
    THEN [res |-> Nil, hash |-> hash, str |-> g, ttl |-> Lease, pub |-> FALSE]
    ELSE [res |-> ttl, hash |-> hash, str |-> str, ttl |-> ttl, pub |-> FALSE]

\* a wrong RedissonMutex.tryLockInner, without the pexpire after setnx
RedissonMutex_tryLockInner_noExpire(g) ==
    IF str = 0
    THEN [res |-> Nil, hash |-> hash, str |-> g, ttl |-> ttl, pub |-> FALSE]
    ELSE [res |-> ttl, hash |-> hash, str |-> str, ttl |-> ttl, pub |-> FALSE]

\* RedissonMutex.tryLockInner: setnx, then pexpire; else pttl
RedissonMutex_tryLockInner(g) ==
    IF str = 0
    THEN [res |-> Nil, hash |-> hash, str |-> g, ttl |-> Lease, pub |-> FALSE]
    ELSE [res |-> ttl, hash |-> hash, str |-> str, ttl |-> ttl, pub |-> FALSE]

tryLockInner(g) ==
    IF kind = "lock" THEN RedissonLock_tryLockInner(g) ELSE RedissonMutex_tryLockInner(g)

\* a wrong RedissonLock.unlockInner, which deletes the key without publishing
RedissonLock_unlockInner_silent(g) ==
    IF hash[g] = 0
    THEN [res |-> Nil, hash |-> hash, str |-> str, ttl |-> ttl, pub |-> FALSE]
    ELSE IF hash[g] - 1 > 0
    THEN [res |-> 0, hash |-> [hash EXCEPT ![g] = @ - 1], str |-> str, ttl |-> Lease, pub |-> FALSE]
    ELSE [res |-> 1, hash |-> NoHash, str |-> str, ttl |-> 0, pub |-> FALSE]

\* a wrong RedissonLock.unlockInner, without the hexists test on the caller's field
RedissonLock_unlockInner_unchecked(g) ==
    IF hash[g] - 1 > 0
    THEN [res |-> 0, hash |-> [hash EXCEPT ![g] = @ - 1], str |-> str, ttl |-> Lease, pub |-> FALSE]
    ELSE [res |-> 1, hash |-> NoHash, str |-> str, ttl |-> 0, pub |-> TRUE]

\* a wrong RedissonLock.unlockInner, which publishes on every unlock of the owner
RedissonLock_unlockInner_loud(g) ==
    IF hash[g] = 0
    THEN [res |-> Nil, hash |-> hash, str |-> str, ttl |-> ttl, pub |-> FALSE]
    ELSE IF hash[g] - 1 > 0
    THEN [res |-> 0, hash |-> [hash EXCEPT ![g] = @ - 1], str |-> str, ttl |-> Lease, pub |-> TRUE]
    ELSE [res |-> 1, hash |-> NoHash, str |-> str, ttl |-> 0, pub |-> TRUE]

\* RedissonLock.unlockInner script
RedissonLock_unlockInner(g) ==
    IF hash[g] = 0
    THEN [res |-> Nil, hash |-> hash, str |-> str, ttl |-> ttl, pub |-> FALSE]
    ELSE IF hash[g] - 1 > 0
    THEN [res |-> 0, hash |-> [hash EXCEPT ![g] = @ - 1], str |-> str, ttl |-> Lease, pub |-> FALSE]
    ELSE [res |-> 1, hash |-> NoHash, str |-> str, ttl |-> 0, pub |-> TRUE]

\* a wrong RedissonMutex.unlockInner, which deletes the key whoever owns it
RedissonMutex_unlockInner_any(g) ==
    IF str = 0
    THEN [res |-> Nil, hash |-> hash, str |-> str, ttl |-> ttl, pub |-> FALSE]
    ELSE [res |-> 1, hash |-> hash, str |-> 0, ttl |-> 0, pub |-> TRUE]

\* RedissonMutex.unlockInner script
RedissonMutex_unlockInner(g) ==
    IF str # g
    THEN [res |-> Nil, hash |-> hash, str |-> str, ttl |-> ttl, pub |-> FALSE]
    ELSE [res |-> 1, hash |-> hash, str |-> 0, ttl |-> 0, pub |-> TRUE]

unlockInner(g) ==
    IF kind = "lock" THEN RedissonLock_unlockInner(g) ELSE RedissonMutex_unlockInner(g)

\* RedissonLock.renewExpirationInner script
RedissonLock_renewExpirationInner(g) ==
    IF hash[g] > 0 THEN [res |-> 1, ttl |-> Lease] ELSE [res |-> 0, ttl |-> ttl]

\* RedissonMutex.renewExpirationInner script
RedissonMutex_renewExpirationInner(g) ==
    IF str # 0 THEN [res |-> 1, ttl |-> Lease] ELSE [res |-> 0, ttl |-> ttl]

renewExpirationInner(g) ==
    IF kind = "lock" THEN RedissonLock_renewExpirationInner(g)
    ELSE RedissonMutex_renewExpirationInner(g)

\* a wrong publish, which reaches no subscription
Publish_lost(ms) == ms

\* publish on the lock's channel: one more message for every open subscription
Publish(ms) == [t \in Tasks |-> IF sub[t] THEN Min(ms[t] + 1, MaxMsgs) ELSE ms[t]]

\* ---------------------------------------------------------------- rate limiter: data

\* ---- bounds of the rate limiter model
\* client handles (Redisson instances, one id each) that use the limiter
NumClients == 2
\* goroutines that make blocking calls (AcquirePermits,
\* TryAcquirePermitsWithTimeout) in the staged scenario; caller c uses the
\* handle clientOf(c)
NumCallers == 3
\* largest rate configured
MaxRate == 2
\* largest interval configured in the timed specifications, in ms
MaxInterval == 2
\* largest finite timeout of a TryAcquirePermitsWithTimeout call, in ms
MaxTimeout == 5
\* goroutines that make blocking calls while the clients make single calls
NumBlockers == 1
\* largest interval argument of SetRate / TrySetRate before the unit is applied
MaxIntervalArg == 1
\* milliseconds counted by the clock of the staged scenario
Horizon == 12

\* ---- program constants
\* the 3 ms the acquire script adds to the delay it returns
Jitter == 3
RateTypeOVERALL == 0
RateTypePER_CLIENT == 1

Clients == 1..NumClients
Callers == 1..NumCallers
Blockers == 1..NumBlockers
clientOf(c) == ((c - 1) % NumClients) + 1
\* the pair of keys without a client suffix
Shared == 0
Buckets == {Shared} \cup Clients
\* ages stop counting at the largest interval: a member that old is expired under
\* every configuration, and because every member carries at least one permit the
\* sweep removes all expired members before a delay is computed from an age
AgeCap == MaxInterval
\* permits a call asks for: 1 .. MaxRate + 1 (the last exceeds every rate)
PermitSizes == 1..(MaxRate + 1)
\* finite timeouts a call is made with: none, and the largest two
Timeouts == {0, MaxTimeout - 1, MaxTimeout}

NoCfg == [rate |-> <<>>, interval |-> <<>>, type |-> <<>>]
NoCall == [pc |-> "idle", op |-> "", permits |-> 0, timeout |-> 0, limit |-> 0,
           nap |-> 0, after |-> "", slept |-> 0]
NoRet == [op |-> "", err |-> FALSE, ok |-> FALSE, num |-> 0, conf |-> <<>>]

\* no limiter has been configured and nobody calls one
NoLimiter ==
    /\ cfg = NoCfg
    /\ val = [b \in Buckets |-> <<>>]
    /\ perm = [b \in Buckets |-> <<>>]
    /\ call = [c \in Callers |-> NoCall]
    /\ ret = NoRet
    /\ grants = [cl \in Clients |-> [g \in 0..(MaxInterval - 1) |-> 0]]
    /\ clk = 0

\* ---------------------------------------------------------------- client options, names: data

\* ---- bounds
\* options passed to one NewRedisson call
MaxOpts == 2
\* characters of an object name
MaxLen == 3

\* ---- program constants
\* DefaultWatchDogTimeout = 30 * time.Second, in ms
DefaultWatchDogTimeout == 30000

\* durations in ms given to WithWatchDogTimeout: negative, zero, the one second and
\* the 39 seconds of the tests, and the values around 30 seconds
Durations == {-1000, 0, 1000, 29999, 30000, 30001, 39000}

\* no client has been made
NoClient ==
    /\ opts = <<>>
    /\ watchDogTimeout = <<>>
    /\ internalLockLeaseTime = <<>>
    /\ timerPeriod = <<>>

\* strings are sequences of characters
Chars == {"a", "{", "}", ":"}
NoArgs == [prefix |-> <<>>, name |-> <<>>, suffix |-> <<>>]
NoKey == [op |-> "", key |-> <<>>]

\* no name has been derived
NoNames == nameArgs = NoArgs /\ nameOut = NoKey

\* the objects a specification is not about
Unused == NoClient /\ NoNames

\* ---------------------------------------------------------------- Init

\* no lock is held and no call is in progress
InitLocks ==
    /\ kind \in {"lock", "mutex"}
    /\ hash = NoHash
    /\ str = 0
    /\ ttl = 0
    /\ storeUp = TRUE
    /\ sub = [t \in Tasks |-> FALSE]
    /\ msgs = [t \in Tasks |-> 0]
    /\ regMap = [h \in AllHandles |-> 0]
    /\ ents = [e \in EntryIds |-> EmptyEntry]
    /\ timers = [k \in TimerIds |-> FreeTimer]
    /\ pc = [t \in Tasks |-> "idle"]
    /\ hnd = [t \in Tasks |-> 0]
    /\ ctx = [t \in Tasks |-> "none"]
    /\ wt = [t \in Tasks |-> 0]
    /\ ent = [t \in Tasks |-> 0]
    /\ isNew = [t \in Tasks |-> FALSE]
    /\ res = [t \in Tasks |-> 0]
    /\ ev = NoEv
    /\ held = [t \in Tasks |-> 0]
    /\ a = 0
    /\ tmp = [t \in Tasks |-> 0]
    /\ phase = [t \in Tasks |-> "free"]

Init == InitLocks /\ NoLimiter /\ Unused

\* ---------------------------------------------------------------- LockContext

\* LockContext up to the loop: getId, Subscribe, ttl = 0
LockContext_start(t, h, c) ==
    /\ pc[t] = "idle"
    /\ held[t] < MaxHold
    /\ hash[t] < MaxHold
    /\ pc' = [pc EXCEPT ![t] = "select"]
    /\ hnd' = [hnd EXCEPT ![t] = h]
    /\ ctx' = [ctx EXCEPT ![t] = c]
    /\ wt' = [wt EXCEPT ![t] = 0]
    /\ ev' = NoEv
    /\ sub' = [sub EXCEPT ![t] = TRUE]
    /\ msgs' = [msgs EXCEPT ![t] = 0]
    /\ UNCHANGED <<store, reg, ent, isNew, res, held>>

\* a return of LockContext (the deferred Unsubscribe and Close included)
LockContext_return(t, r) ==
    /\ pc' = [pc EXCEPT ![t] = "idle"]
    /\ ev' = <<t, r>>
    /\ held' = [held EXCEPT ![t] = IF r = "locked" THEN @ + 1 ELSE @]
    /\ hnd' = [hnd EXCEPT ![t] = 0]
    /\ ctx' = [ctx EXCEPT ![t] = "none"]
    /\ wt' = [wt EXCEPT ![t] = 0]
    /\ ent' = [ent EXCEPT ![t] = 0]
    /\ isNew' = [isNew EXCEPT ![t] = FALSE]
    /\ sub' = [sub EXCEPT ![t] = FALSE]
    /\ msgs' = [msgs EXCEPT ![t] = 0]
    /\ UNCHANGED res

\* the deadline of the call's context passes, or its cancel function is called
CancelCtx(t) ==
    /\ pc[t] = "select"
    /\ ctx[t] = "live"
    /\ ctx' = [ctx EXCEPT ![t] = "done"]
    /\ ev' = NoEv
    /\ UNCHANGED <<store, pubsub, reg, pc, hnd, wt, ent, isNew, res, held>>
    /\ UNCHANGED <<scen, aside>>

\* select case <-ctx.Done(): return ErrObtainLockTimeout
LockContext_ctxDone(t) ==
    /\ pc[t] = "select"
    /\ ctx[t] = "done"
    /\ LockContext_return(t, "timeout")
    /\ UNCHANGED <<store, reg>>
    /\ UNCHANGED <<scen, aside>>

\* a wrong loop body, which takes a failed tryAcquire for a busy lock and tries
\* again after the lease
LockContext_afterTry_retry(t, ok, r, m) ==
    /\ hash' = IF ok THEN r.hash ELSE hash
    /\ str' = IF ok THEN r.str ELSE str
    /\ ttl' = IF ok THEN r.ttl ELSE ttl
    /\ UNCHANGED <<kind, storeUp>>
    /\ msgs' = m
    /\ IF ok /\ r.res = Nil
       THEN /\ pc' = [pc EXCEPT ![t] = "sched"]
            /\ UNCHANGED wt
       ELSE /\ wt' = [wt EXCEPT ![t] = IF ok THEN r.res ELSE Lease]
            /\ UNCHANGED pc
    /\ ev' = NoEv
    /\ UNCHANGED <<sub, hnd, ctx, ent, isNew, res, held>>

\* what LockContext does with the outcome of tryAcquire
\* (err # nil: return err; ttl == nil: scheduleExpirationRenewal ran, return nil;
\*  else loop with the new ttl)
LockContext_afterTry(t, ok, r, m) ==
    IF ~ok
    THEN /\ LockContext_return(t, "lockerr")
         /\ UNCHANGED store
    ELSE /\ hash' = r.hash
         /\ str' = r.str
         /\ ttl' = r.ttl
         /\ UNCHANGED <<kind, storeUp>>
         /\ msgs' = m
         /\ IF r.res = Nil
            THEN /\ pc' = [pc EXCEPT ![t] = "sched"]
                 /\ UNCHANGED wt
            ELSE /\ wt' = [wt EXCEPT ![t] = r.res]
                 /\ UNCHANGED pc
         /\ ev' = NoEv
         /\ UNCHANGED <<sub, hnd, ctx, ent, isNew, res, held>>

\* the Eval of a script with the call's context: it fails when the connection is
\* down or the context is already done
EvalOk(c) == storeUp /\ c # "done"

\* a wrong select without the time.After case
LockContext_timer_absent(t) ==
    /\ pc[t] = "select"
    /\ wt[t] = 0
    /\ FALSE
    /\ UNCHANGED vars

\* select case <-time.After(ttl): tryAcquire
LockContext_timer(t) ==
    /\ pc[t] = "select"
    /\ wt[t] = 0
    /\ LockContext_afterTry(t, EvalOk(ctx[t]), tryLockInner(t), msgs)
    /\ UNCHANGED reg
    /\ UNCHANGED <<scen, aside>>

\* select case <-sub.Channel(): tryAcquire
LockContext_channel(t) ==
    /\ pc[t] = "select"
    /\ msgs[t] > 0
    /\ LockContext_afterTry(t, EvalOk(ctx[t]), tryLockInner(t),
                            [msgs EXCEPT ![t] = @ - 1])
    /\ UNCHANGED reg
    /\ UNCHANGED <<scen, aside>>

\* scheduleExpirationRenewal: ExpirationRenewalMap.LoadOrStore(entryName, newRenewEntry())
scheduleExpirationRenewal_loadOrStore(t) ==
    /\ pc[t] = "sched"
    /\ IF regMap[hnd[t]] # 0
       THEN /\ ent' = [ent EXCEPT ![t] = regMap[hnd[t]]]
            /\ isNew' = [isNew EXCEPT ![t] = FALSE]
            /\ UNCHANGED regMap
       ELSE /\ FreeEntries # {}
            /\ ent' = [ent EXCEPT ![t] = Smallest(FreeEntries)]
            /\ isNew' = [isNew EXCEPT ![t] = TRUE]
            /\ regMap' = [regMap EXCEPT ![hnd[t]] = Smallest(FreeEntries)]
    /\ pc' = [pc EXCEPT ![t] = "add"]
    /\ ev' = NoEv
    /\ UNCHANGED <<store, pubsub, ents, timers, hnd, ctx, wt, res, held>>
    /\ UNCHANGED <<scen, aside>>

\* scheduleExpirationRenewal: addGoroutineId on the entry LoadOrStore returned;
\* with an entry that was already stored LockContext then returns nil
scheduleExpirationRenewal_add(t) ==
    /\ pc[t] = "add"
    /\ IF isNew[t]
       THEN /\ pc' = [pc EXCEPT ![t] = "renew"]
            /\ ents' = [ents EXCEPT ![ent[t]].ids = addGoroutineId(@, t)]
            /\ ev' = NoEv
            /\ UNCHANGED <<pubsub, hnd, ctx, wt, ent, isNew, res, held>>
       ELSE /\ LockContext_return(t, "locked")
            /\ ents' = Norm([ents EXCEPT ![ent[t]].ids = addGoroutineId(@, t)],
                            regMap, ent', timers)
    /\ UNCHANGED <<store, regMap, timers>>
    /\ UNCHANGED <<scen, aside>>

\* renewExpiration as called by scheduleExpirationRenewal: Load the entry, start the
\* timer goroutine, store its cancel function; LockContext then returns nil
renewExpiration_first(t) ==
    /\ pc[t] = "renew"
    /\ LockContext_return(t, "locked")
    /\ IF regMap[hnd[t]] = 0
       THEN UNCHANGED timers /\ ents' = Norm(ents, regMap, ent', timers)
       ELSE /\ FreeTimers # {}
            /\ timers' = [timers EXCEPT ![Smallest(FreeTimers)] =
                   [pc |-> "wait", cd |-> RenewPeriod, h |-> hnd[t], ent |-> 0,
                    gid |-> 0, cancelled |-> FALSE]]
            /\ ents' = Norm([ents EXCEPT ![regMap[hnd[t]]].cancel = Smallest(FreeTimers)],
                            regMap, ent', timers')
    /\ UNCHANGED <<store, regMap>>
    /\ UNCHANGED <<scen, aside>>

\* ---------------------------------------------------------------- UnlockContext

\* UnlockContext: getId and the Eval of the unlock script (context.Background())
UnlockContext_start(t, h) ==
    /\ pc[t] = "idle"
    /\ LET r == unlockInner(t) IN
       IF storeUp
       THEN /\ hash' = r.hash
            /\ str' = r.str
            /\ ttl' = r.ttl
            /\ msgs' = IF r.pub THEN Publish(msgs) ELSE msgs
            /\ res' = [res EXCEPT ![t] = r.res]
       ELSE /\ res' = [res EXCEPT ![t] = Err]
            /\ UNCHANGED <<hash, str, ttl, msgs>>
    /\ pc' = [pc EXCEPT ![t] = "u_load"]
    /\ hnd' = [hnd EXCEPT ![t] = h]
    /\ ev' = NoEv
    /\ held' = [held EXCEPT ![t] = Max(@ - 1, 0)]
    /\ UNCHANGED <<kind, storeUp, sub, reg, ctx, wt, ent, isNew>>

\* what UnlockContext returns once the deferred cancelExpirationRenewal is over
UnlockContext_return(t) ==
    /\ pc' = [pc EXCEPT ![t] = "idle"]
    /\ ev' = <<t, IF res[t] = Err THEN "unlockerr"
                   ELSE IF res[t] = Nil THEN "notowner" ELSE "unlocked">>
    /\ hnd' = [hnd EXCEPT ![t] = 0]
    /\ ent' = [ent EXCEPT ![t] = 0]
    /\ res' = [res EXCEPT ![t] = 0]
    /\ UNCHANGED <<ctx, wt, isNew, held>>

\* a wrong cancelExpirationRenewal, called only when the unlock script has answered
\* 0 or 1
cancelExpirationRenewal_load_onSuccess(t) ==
    /\ pc[t] = "u_load"
    /\ IF regMap[hnd[t]] = 0 \/ res[t] \in {Nil, Err}
       THEN UnlockContext_return(t)
       ELSE /\ pc' = [pc EXCEPT ![t] = "u_rm"]
            /\ ent' = [ent EXCEPT ![t] = regMap[hnd[t]]]
            /\ ev' = NoEv
            /\ UNCHANGED <<hnd, ctx, wt, isNew, res, held>>
    /\ UNCHANGED <<store, pubsub, reg>>
    /\ UNCHANGED <<scen, aside>>

\* cancelExpirationRenewal(goroutineId): ExpirationRenewalMap.Load
cancelExpirationRenewal_load(t) ==
    /\ pc[t] = "u_load"
    /\ IF regMap[hnd[t]] = 0
       THEN UnlockContext_return(t)
       ELSE /\ pc' = [pc EXCEPT ![t] = "u_rm"]
            /\ ent' = [ent EXCEPT ![t] = regMap[hnd[t]]]
            /\ ev' = NoEv
            /\ UNCHANGED <<hnd, ctx, wt, isNew, res, held>>
    /\ UNCHANGED <<store, pubsub, reg>>
    /\ UNCHANGED <<scen, aside>>

\* cancelExpirationRenewal: task.removeGoroutineId(goroutineId)
cancelExpirationRenewal_remove(t) ==
    /\ pc[t] = "u_rm"
    /\ ents' = [ents EXCEPT ![ent[t]].ids = removeGoroutineId(@, t)]
    /\ pc' = [pc EXCEPT ![t] = "u_chk"]
    /\ ev' = NoEv
    /\ UNCHANGED <<store, pubsub, regMap, timers, hnd, ctx, wt, ent, isNew, res, held>>
    /\ UNCHANGED <<scen, aside>>

\* cancelExpirationRenewal: task.hasNoThreads()
cancelExpirationRenewal_check(t) ==
    /\ pc[t] = "u_chk"
    /\ IF hasNoThreads(ents[ent[t]].ids)
       THEN /\ pc' = [pc EXCEPT ![t] = "u_cancel"]
            /\ ev' = NoEv
            /\ UNCHANGED <<hnd, ctx, wt, ent, isNew, res, held, ents>>
       ELSE /\ UnlockContext_return(t)
            /\ ents' = Norm(ents, regMap, ent', timers)
    /\ UNCHANGED <<store, pubsub, regMap, timers>>
    /\ UNCHANGED <<scen, aside>>

\* cancelExpirationRenewal: under the entry's lock, call cancelFunc and clear it
cancelExpirationRenewal_cancel(t) ==
    /\ pc[t] = "u_cancel"
    /\ timers' = CancelTimer(timers, ents[ent[t]].cancel)
    /\ ents' = Norm([ents EXCEPT ![ent[t]].cancel = 0], regMap, ent, timers')
    /\ pc' = [pc EXCEPT ![t] = "u_del"]
    /\ ev' = NoEv
    /\ UNCHANGED <<store, pubsub, regMap, hnd, ctx, wt, ent, isNew, res, held>>
    /\ UNCHANGED <<scen, aside>>

\* cancelExpirationRenewal: ExpirationRenewalMap.Delete(entryName)
cancelExpirationRenewal_delete(t) ==
    /\ pc[t] = "u_del"
    /\ regMap' = [regMap EXCEPT ![hnd[t]] = 0]
    /\ UnlockContext_return(t)
    /\ ents' = Norm(ents, regMap', ent', timers)
    /\ UNCHANGED <<store, pubsub, timers>>
    /\ UNCHANGED <<scen, aside>>

\* ---------------------------------------------------------------- renewal timer

\* the timer goroutine k ends
TimerExit(k) == [timers EXCEPT ![k] = FreeTimer]

\* case <-ti.C of the goroutine started by renewExpiration: ExpirationRenewalMap.Load
\* and ent.getFirstGoroutineId(); the goroutine returns when either finds nothing
renewExpiration_fire(k) ==
    /\ timers[k].pc = "wait"
    /\ timers[k].cd = 0
    /\ timers' = IF regMap[timers[k].h] = 0
                    \/ getFirstGoroutineId(ents[regMap[timers[k].h]].ids) = 0
                 THEN TimerExit(k)
                 ELSE [timers EXCEPT ![k].pc = "renewcall",
                          ![k].gid = getFirstGoroutineId(ents[regMap[timers[k].h]].ids)]
    /\ ents' = Norm(ents, regMap, ent, timers')
    /\ ev' = NoEv
    /\ UNCHANGED <<store, pubsub, regMap, task>>
    /\ UNCHANGED <<scen, aside>>

\* the callback: m.lock.renewExpirationInner(ctx, *goroutineId) with the goroutine's
\* own context, and the branch on its result
renewExpiration_renew(k) ==
    /\ timers[k].pc = "renewcall"
    /\ IF storeUp /\ ~timers[k].cancelled
       THEN /\ ttl' = renewExpirationInner(timers[k].gid).ttl
            /\ timers' = [timers EXCEPT ![k].pc =
                   IF renewExpirationInner(timers[k].gid).res # 0 THEN "resched" ELSE "c_load"]
       ELSE /\ timers' = [timers EXCEPT ![k].pc = "errdel"]
            /\ UNCHANGED ttl
    /\ ev' = NoEv
    /\ UNCHANGED <<kind, hash, str, storeUp, pubsub, regMap, ents, task>>
    /\ UNCHANGED <<scen, aside>>

\* the callback, err # nil: ExpirationRenewalMap.Delete(entryName), return
renewExpiration_errDelete(k) ==
    /\ timers[k].pc = "errdel"
    /\ regMap' = [regMap EXCEPT ![timers[k].h] = 0]
    /\ timers' = TimerExit(k)
    /\ ents' = Norm(ents, regMap', ent, timers')
    /\ ev' = NoEv
    /\ UNCHANGED <<store, pubsub, task>>
    /\ UNCHANGED <<scen, aside>>

\* (mutation) the next timer is started whether an entry is stored or not
renewExpiration_again_always(k) ==
    /\ timers[k].pc = "resched"
    /\ timers' = [timers EXCEPT ![k] = [pc |-> "wait", cd |-> RenewPeriod,
                      h |-> timers[k].h, ent |-> 0, gid |-> 0, cancelled |-> FALSE]]
    /\ ents' = Norm([e \in EntryIds |->
                       IF regMap[timers[k].h] = e THEN [ents[e] EXCEPT !.cancel = k]
                       ELSE IF ents[e].cancel = k THEN [ents[e] EXCEPT !.cancel = 0]
                       ELSE ents[e]],
                    regMap, ent, timers')
    /\ ev' = NoEv
    /\ UNCHANGED <<store, pubsub, regMap, task>>
    /\ UNCHANGED <<scen, aside>>

\* the callback, res # 0: m.renewExpiration() loads the entry, starts the next timer
\* goroutine and overwrites the entry's cancelFunc; the old goroutine returns
renewExpiration_again(k) ==
    /\ timers[k].pc = "resched"
    /\ timers' = IF regMap[timers[k].h] = 0
                 THEN TimerExit(k)
                 ELSE [timers EXCEPT ![k] = [pc |-> "wait", cd |-> RenewPeriod,
                          h |-> timers[k].h, ent |-> 0, gid |-> 0, cancelled |-> FALSE]]
    /\ ents' = Norm([e \in EntryIds |->
                       IF regMap[timers[k].h] = e THEN [ents[e] EXCEPT !.cancel = k]
                       ELSE IF ents[e].cancel = k THEN [ents[e] EXCEPT !.cancel = 0]
                       ELSE ents[e]],
                    regMap, ent, timers')
    /\ ev' = NoEv
    /\ UNCHANGED <<store, pubsub, regMap, task>>
    /\ UNCHANGED <<scen, aside>>

\* the callback, res = 0: cancelExpirationRenewal(0) loads the entry, calls its
\* cancelFunc and clears it
renewExpiration_cancel(k) ==
    /\ timers[k].pc = "c_load"
    /\ timers' = IF regMap[timers[k].h] = 0
                 THEN TimerExit(k)
                 ELSE [CancelTimer(timers, ents[regMap[timers[k].h]].cancel)
                          EXCEPT ![k].pc = "c_del"]
    /\ ents' = Norm([e \in EntryIds |->
                       IF regMap[timers[k].h] = e THEN [ents[e] EXCEPT !.cancel = 0]
                       ELSE ents[e]],
                    regMap, ent, timers')
    /\ ev' = NoEv
    /\ UNCHANGED <<store, pubsub, regMap, task>>
    /\ UNCHANGED <<scen, aside>>

\* cancelExpirationRenewal(0): ExpirationRenewalMap.Delete(entryName), return
renewExpiration_cancelDelete(k) ==
    /\ timers[k].pc = "c_del"
    /\ regMap' = [regMap EXCEPT ![timers[k].h] = 0]
    /\ timers' = TimerExit(k)
    /\ ents' = Norm(ents, regMap', ent, timers')
    /\ ev' = NoEv
    /\ UNCHANGED <<store, pubsub, task>>
    /\ UNCHANGED <<scen, aside>>

\* ---------------------------------------------------------------- environment

\* a goroutine that can take a step without waiting for time to pass
Urgent(t) ==
    \/ pc[t] \notin {"idle", "select"}
    \/ pc[t] = "select" /\ (wt[t] = 0 \/ msgs[t] > 0 \/ ctx[t] = "done")

TimerUrgent(k) ==
    \/ timers[k].pc \notin {"free", "wait"}
    \/ timers[k].pc = "wait" /\ timers[k].cd = 0

\* one watchdog period (lease / 3) passes: the key's ttl, the time.After of every
\* waiting LockContext and every renewal timer count down; a key at ttl 0 expires
Tick ==
    /\ \A t \in Tasks : ~Urgent(t)
    /\ \A k \in TimerIds : ~TimerUrgent(k)
    /\ ttl' = Max(ttl - 1, 0)
    /\ hash' = IF ttl - 1 <= 0 THEN NoHash ELSE hash
    /\ str' = IF ttl - 1 <= 0 THEN 0 ELSE str
    /\ wt' = [t \in Tasks |-> IF pc[t] = "select" THEN wt[t] - 1 ELSE wt[t]]
    /\ timers' = [k \in TimerIds |->
                    IF timers[k].pc = "wait" THEN [timers[k] EXCEPT !.cd = @ - 1]
                    ELSE timers[k]]
    /\ UNCHANGED <<kind, storeUp, pubsub, regMap, ents,
                   pc, hnd, ctx, ent, isNew, res, held>>
    /\ ev' = NoEv
    /\ UNCHANGED <<scen, aside>>

\* the connection to the store is lost for good (the client is closed)
Disconnect ==
    /\ storeUp
    /\ storeUp' = FALSE
    /\ ev' = NoEv
    /\ UNCHANGED <<kind, hash, str, ttl, pubsub, reg, task>>
    /\ UNCHANGED <<scen, aside>>

\* ---------------------------------------------------------------- specification

\* the steps of a task inside LockContext and UnlockContext
CallStep(t) ==
    \/ LockContext_timer(t)
    \/ LockContext_channel(t)
    \/ scheduleExpirationRenewal_loadOrStore(t)
    \/ scheduleExpirationRenewal_add(t)
    \/ renewExpiration_first(t)
    \/ cancelExpirationRenewal_load(t)
    \/ cancelExpirationRenewal_remove(t)
    \/ cancelExpirationRenewal_check(t)
    \/ cancelExpirationRenewal_cancel(t)
    \/ cancelExpirationRenewal_delete(t)

TimerStep(k) ==
    \/ renewExpiration_fire(k)
    \/ renewExpiration_renew(k)
    \/ renewExpiration_errDelete(k)
    \/ renewExpiration_again(k)
    \/ renewExpiration_cancel(k)
    \/ renewExpiration_cancelDelete(k)

\* Lock() by a task that does not hold the lock: LockContext(context.Background())
Lock(t) ==
    /\ held[t] = 0
    /\ \E h \in Handles : LockContext_start(t, h, "none")
    /\ UNCHANGED <<scen, aside>>

\* Lock() by a task that holds the lock
Relock(t) ==
    /\ held[t] > 0
    /\ \E h \in Handles : LockContext_start(t, h, "none")
    /\ UNCHANGED <<scen, aside>>

\* Unlock() by a task that holds the lock
Unlock(t) ==
    /\ held[t] > 0
    /\ \E h \in Handles : UnlockContext_start(t, h)
    /\ UNCHANGED <<scen, aside>>

\* Unlock() by a task that does not hold the lock
StrayUnlock(t) ==
    /\ held[t] = 0
    /\ \E h \in Handles : UnlockContext_start(t, h)
    /\ UNCHANGED <<scen, aside>>

\* LockContext with a context that has a deadline or can be cancelled
LockWithContext(t) ==
    \/ held[t] = 0 /\ (\E h \in Handles : LockContext_start(t, h, "live")) /\ UNCHANGED <<scen, aside>>
    \/ CancelCtx(t)
    \/ LockContext_ctxDone(t)

\* LockContext with such a context by a task that holds the lock
RelockWithContext(t) ==
    /\ held[t] > 0
    /\ \E h \in Handles : LockContext_start(t, h, "live")
    /\ UNCHANGED <<scen, aside>>

Core ==
    \/ \E t \in Tasks : CallStep(t)
    \/ \E k \in TimerIds : TimerStep(k)
    \/ Tick

InitLock == Init /\ kind = "lock"
InitMutex == Init /\ kind = "mutex"

\* the reentrant lock: every task locks and unlocks any number of times
Next ==
    \/ \E t \in Tasks : Lock(t)
    \/ \E t \in Tasks : Unlock(t)
    \/ Core

Spec == InitLock /\ [][Next]_vars

\* the same with reentrant acquisitions
NextReentrant ==
    \/ \E t \in Tasks : Lock(t)
    \/ \E t \in Tasks : Relock(t)
    \/ \E t \in Tasks : Unlock(t)
    \/ Core

SpecReentrant == InitLock /\ [][NextReentrant]_vars

\* the lock or the mutex, with Unlock calls by tasks that hold nothing
NextStray ==
    \/ \E t \in Tasks : Lock(t)
    \/ \E t \in Tasks : Unlock(t)
    \/ \E t \in Tasks : StrayUnlock(t)
    \/ Core

SpecStray == Init /\ [][NextStray]_vars

\* the same with contexts that end
NextCtx ==
    \/ \E t \in Tasks : LockWithContext(t)
    \/ \E t \in Tasks : Unlock(t)
    \/ Core

SpecCtx == InitLock /\ [][NextCtx]_vars

\* the same with a connection that fails
NextFail ==
    \/ \E t \in Tasks : Lock(t)
    \/ \E t \in Tasks : Unlock(t)
    \/ Core
    \/ Disconnect

SpecFail == InitLock /\ [][NextFail]_vars

\* the mutex: Lock by tasks that hold nothing, LockContext with a context that
\* can end by tasks that hold the mutex
NextMutex ==
    \/ \E t \in Tasks : Lock(t)
    \/ \E t \in Tasks : RelockWithContext(t)
    \/ \E t \in Tasks : CancelCtx(t)
    \/ \E t \in Tasks : LockContext_ctxDone(t)
    \/ \E t \in Tasks : Unlock(t)
    \/ Core

SpecMutex == InitMutex /\ [][NextMutex]_vars

\* ---------------------------------------------------------------- scenarios

\* TestLockBackground: every goroutine runs l.Lock(); a++; l.Unlock() once.
\* phase: "free" -> "lock" (Lock called) -> "incr" (a read) -> "wrote" (a written)
\*        -> "unlock" (Unlock called)
Background_Lock(t) ==
    /\ phase[t] = "free"
    /\ \E h \in Handles : LockContext_start(t, h, "none")
    /\ phase' = [phase EXCEPT ![t] = "lock"]
    /\ UNCHANGED <<a, tmp, aside>>

\* a++ after Lock returned nil: the read of a
Background_Read(t) ==
    /\ phase[t] = "lock" /\ pc[t] = "idle" /\ held[t] > 0
    /\ tmp' = [tmp EXCEPT ![t] = a]
    /\ phase' = [phase EXCEPT ![t] = "incr"]
    /\ ev' = NoEv
    /\ UNCHANGED <<store, pubsub, reg, task, a, aside>>

\* a++: the write of a
Background_Write(t) ==
    /\ phase[t] = "incr"
    /\ a' = tmp[t] + 1
    /\ phase' = [phase EXCEPT ![t] = "wrote"]
    /\ ev' = NoEv
    /\ UNCHANGED <<store, pubsub, reg, task, tmp, aside>>

Background_Unlock(t) ==
    /\ phase[t] = "wrote"
    /\ \E h \in Handles : UnlockContext_start(t, h)
    /\ phase' = [phase EXCEPT ![t] = "unlock"]
    /\ UNCHANGED <<a, tmp, aside>>

\* the goroutine of the scenario has returned
Finished(t) == phase[t] = "unlock" /\ pc[t] = "idle"

\* time passes only when every goroutine of the scenario is blocked or has returned
\* (the increment and the calls take no time)
Background_Tick ==
    /\ \A t \in Tasks : pc[t] = "select" \/ Finished(t)
    /\ Tick

Background_Step(t) ==
    \/ Background_Lock(t)
    \/ Background_Read(t)
    \/ Background_Write(t)
    \/ Background_Unlock(t)
    \/ CallStep(t)

\* No renewal timer comes due before the scenario is over and none is left when it
\* is (with TimerStep in the next-state relation no step of it is ever taken), so
\* the steps of the timer goroutines are left out.  Every goroutine that can take a
\* step eventually takes one.
NextBackground ==
    \/ \E t \in Tasks : Background_Step(t)
    \/ Background_Tick

SpecBackground ==
    /\ InitLock
    /\ [][NextBackground]_vars
    /\ \A t \in Tasks : WF_vars(Background_Step(t))
    /\ WF_vars(Background_Tick)

\* TestLockFairness: the goroutine Looper locks, holds for 100 microseconds and
\* unlocks in a loop; every other goroutine locks and unlocks once.  The 60 s
\* deadlines of the contexts are never reached: no time passes while the looper
\* runs, so the calls are modelled without a deadline.
Looper == 1

Fairness_Lock(t) ==
    /\ phase[t] = "free" \/ (t = Looper /\ Finished(t))
    /\ \E h \in Handles : LockContext_start(t, h, "none")
    /\ phase' = [phase EXCEPT ![t] = "lock"]
    /\ UNCHANGED <<a, tmp, aside>>

Fairness_Unlock(t) ==
    /\ phase[t] = "lock" /\ pc[t] = "idle" /\ held[t] > 0
    /\ \E h \in Handles : UnlockContext_start(t, h)
    /\ phase' = [phase EXCEPT ![t] = "unlock"]
    /\ UNCHANGED <<a, tmp, aside>>

Fairness_Step(t) ==
    \/ Fairness_Lock(t)
    \/ Fairness_Unlock(t)
    \/ CallStep(t)

\* the looper always has a step to take, so no time passes and no timer comes due
NextFairness == \E t \in Tasks : Fairness_Step(t)

SpecFairness ==
    /\ InitLock
    /\ [][NextFairness]_vars
    /\ \A t \in Tasks : WF_vars(Fairness_Step(t))

\* ---------------------------------------------------------------- properties

\* a task holds the lock from the return of Lock/LockContext with nil until it
\* calls the matching Unlock
Holds(t) == held[t] > 0

\* C1: mutual exclusion of the reentrant lock: no two distinct tasks hold the
\* lock at the same time, in any interleaving of lock, unlock, expiry and
\* watchdog steps.
C1_MutualExclusion ==
    \A x, y \in Tasks : x # y => ~(Holds(x) /\ Holds(y))

\* C2: watchdog liveness: as long as a task holds the lock, the store key exists
\* with that task's owner tag, however long the hold lasts and whatever the other
\* tasks did on the handle (no store call fails in Spec).
C2_WatchdogLiveness ==
    \A t \in Tasks : Holds(t) => hash[t] > 0

\* the tryLock script of task y's LockContext grants the lock in this step
Acquires(y) == pc[y] = "select" /\ pc'[y] = "sched"

\* task x calls Unlock in this step (the unlock script runs in the same step)
CallsUnlock(x) == pc[x] = "idle" /\ pc'[x] = "u_load"

UnlockPcs == {"u_load", "u_rm", "u_chk", "u_cancel", "u_del"}

\* C3: reentrancy: while a task holds the lock after K successful Lock calls and
\* fewer than K Unlock calls, no other task's acquire attempt is granted and the
\* task's next Unlock keeps the key; its K-th Unlock deletes the key (so that the
\* next attempt of another task is granted).
C3_Reentrancy ==
    [][\A x \in Tasks :
          /\ Holds(x) => \A y \in Tasks \ {x} : ~Acquires(y)
          /\ (CallsUnlock(x) /\ held[x] > 1) => hash'[x] > 0
          /\ (CallsUnlock(x) /\ held[x] = 1) => ~KeyExists']_vars

\* C4: an Unlock whose script finds that the caller does not own the key returns
\* the not-locked-by-current-owner error and changes nothing: not the key, its
\* owner, counter or ttl, and not the registry entry or the renewal timer of the
\* lock.
C4_StrayUnlockChangesNothing ==
    [][\A t \in Tasks :
          /\ (CallsUnlock(t) /\ res'[t] = Nil) => UNCHANGED <<hash, str, ttl>>
          /\ (pc[t] \in UnlockPcs /\ res[t] = Nil /\ pc'[t] # pc[t]) =>
                /\ UNCHANGED <<hash, str, ttl, regMap, timers>>
                /\ \A h \in Handles : regMap[h] # 0 => ents'[regMap[h]] = ents[regMap[h]]
                /\ pc'[t] = "idle" => ev' = <<t, "notowner">>]_vars

\* C5: the mutex is exclusive and not reentrant: a LockContext call is granted
\* the mutex only in a step that starts with the key absent, whoever calls it (the
\* holder included); any other way out of the acquire loop is the end of the
\* call's context.
C5_MutexExclusive ==
    [][\A t \in Tasks :
          /\ Acquires(t) => (str = 0 /\ str' = t)
          /\ (pc[t] = "select" /\ pc'[t] = "idle") =>
                (ctx[t] = "done" /\ ev' \in {<<t, "timeout">>, <<t, "lockerr">>})]_vars

\* C5 happens: a task that holds the mutex has called LockContext again, was
\* refused and waits for the ttl the script reported
C5_HolderWaits ==
    \E t \in Tasks : Holds(t) /\ pc[t] = "select" /\ str = t /\ wt[t] > 0

\* C6: a LockContext call whose context has ended before the lock was acquired
\* returns ErrObtainLockTimeout, and nothing was acquired: the caller's tag is not
\* in the key and the registry and the timers are as they were.
C6_CancelledReturnsTimeout ==
    [][\A t \in Tasks :
          (pc[t] = "select" /\ ctx[t] = "done" /\ pc'[t] # "select") =>
              (ev' = <<t, "timeout">> /\ hash'[t] = 0 /\ UNCHANGED reg)]_vars

\* a step of task t out of the select of its acquire loop while the store cannot
\* be reached: a tryLock call that fails (no time passes while t can step)
FailedAttempt(t) ==
    /\ pc[t] = "select" /\ ~storeUp
    /\ wt[t] = 0 \/ msgs[t] > 0
    /\ pc'[t] # pc[t] \/ wt'[t] # wt[t] \/ msgs'[t] < msgs[t]

\* C7: transport errors propagate and are not retried: a failed tryLock call ends
\* the LockContext call in the same step with the error and changes nothing in
\* the store; an Unlock whose script call failed returns the error.
C7_ErrorsPropagate ==
    [][\A t \in Tasks :
          /\ FailedAttempt(t) =>
                (pc'[t] = "idle" /\ ev' = <<t, "lockerr">> /\ UNCHANGED <<hash, str, ttl>>)
          /\ (CallsUnlock(t) /\ ~storeUp) =>
                (res'[t] = Err /\ UNCHANGED <<hash, str, ttl>>)
          /\ (pc[t] \in UnlockPcs /\ res[t] = Err /\ pc'[t] = "idle") =>
                ev' = <<t, "unlockerr">>]_vars

\* C7 happens: with the store unreachable a LockContext call has just returned the
\* error of its tryLock call
C7_LockFailed ==
    \E t \in Tasks : ~storeUp /\ ev = <<t, "lockerr">>

\* the unlock script of task x deletes the key and publishes in this step
Releases(x) == CallsUnlock(x) /\ res'[x] = 1

\* a task blocked in LockContext (its ttl timer has not run out) with a
\* notification pending
Notified(t) == pc[t] = "select" /\ wt[t] > 0 /\ msgs[t] > 0

\* such a task takes the notification and re-runs tryLock in this step
WakeAttempt(t) == Notified(t) /\ (pc'[t] # pc[t] \/ msgs'[t] < msgs[t])

\* C8 as stated: a release makes a waiter acquire: the tryLock that a notified
\* waiter runs, no other task being in the acquire loop, is granted.
C8_WaiterAcquires ==
    [][\A t \in Tasks :
          (WakeAttempt(t) /\ \A u \in Tasks \ {t} : pc[u] # "select") => Acquires(t)]_vars

\* C8: what holds instead: the final Unlock puts a notification on the channel of
\* every task waiting in LockContext; a notified waiter re-runs tryLock before any
\* time passes (it does not wait for its ttl timer); and that tryLock is granted
\* if the key is still absent, so a waiter acquires unless another task's tryLock
\* reached the store first.
C8_ReleasePropagation ==
    [][\A t \in Tasks :
          /\ ((\E x \in Tasks \ {t} : Releases(x)) /\ pc[t] = "select") => msgs'[t] > 0
          /\ (Notified(t) /\ ~WakeAttempt(t)) => wt'[t] = wt[t]
          /\ (WakeAttempt(t) /\ ~KeyExists) => Acquires(t)]_vars

\* C8 happens: a waiter has been granted the lock on a notification, before the
\* ttl timer of its select had run out
C8_WokenAndGranted ==
    \E t \in Tasks : pc[t] = "sched" /\ wt[t] > 0

AllFinished == \A t \in Tasks : Finished(t)

\* C9: no deadlock: when every task runs Lock(); a++; Unlock() once on the same
\* lock, every task eventually acquires and releases, no call returns an error,
\* and the run ends with a = the number of tasks.
C9_NoDeadlock ==
    /\ <>[](AllFinished /\ a = NumTasks)
    /\ [](\A t \in Tasks : ev \notin {<<t, "lockerr">>, <<t, "timeout">>,
                                      <<t, "notowner">>, <<t, "unlockerr">>})

\* C9 happens: every task has finished and the counter is the number of tasks
C9_AllDone == AllFinished /\ a = NumTasks

RECURSIVE Itoa(_)
Itoa(n) == IF n < 10 THEN <<n>> ELSE Append(Itoa(n \div 10), n % 10)

\* strconv.ParseInt / tonumber of a decimal string; the callers drop the error of
\* an empty string and get 0
RECURSIVE ParseInt(_)
ParseInt(s) ==
    IF s = <<>> THEN 0
    ELSE 10 * ParseInt(SubSeq(s, 1, Len(s) - 1)) + s[Len(s)]

ToMillis(unit, value) ==
    CASE unit = "Milliseconds" -> value
      [] unit = "Seconds" -> value * 1000
      [] unit = "Minutes" -> value * 60 * 1000
      [] unit = "Hours" -> value * 60 * 60 * 1000
      [] unit = "Days" -> value * 24 * 60 * 60 * 1000
      [] OTHER -> 0

\* ---- the permits sorted set
\* (mutation) the members are counted, not their permits
SumPermits_count(s) == Len(s)

RECURSIVE SumPermits(_)
SumPermits(s) == IF s = <<>> THEN 0 ELSE s[1][2] + SumPermits(Tail(s))

\* zadd of a member with score now (age 0): it sorts after every older member;
\* members of one score are ordered by their permits to keep one representation
RECURSIVE zadd(_, _)
zadd(s, p) ==
    IF s = <<>> THEN <<<<0, p>>>>
    ELSE LET last == s[Len(s)] IN
         IF last[1] = 0 /\ last[2] > p
         THEN Append(zadd(SubSeq(s, 1, Len(s) - 1), p), last)
         ELSE Append(s, <<0, p>>)

\* (mutation) the sweep finds the members one millisecond before they expire
zrangebyscore_early(s, interval) == SelectSeq(s, LAMBDA m : m[1] >= interval - 1)

\* members with score <= now - interval
zrangebyscore(s, interval) == SelectSeq(s, LAMBDA m : m[1] >= interval)

\* what zremrangebyscore of the same range leaves
zremrangebyscore(s, interval) == SelectSeq(s, LAMBDA m : m[1] < interval)

\* ---- the scripts
\* (mutation) the scripts do not check the configuration
Initialized_unchecked == TRUE

\* all three fields of the config hash are there
Initialized == cfg.rate # <<>> /\ cfg.interval # <<>> /\ cfg.type # <<>>

\* (mutation) the scripts use the keys without a client suffix in both modes
keysOf_shared(cl) == Shared

\* the value key and permits key a script of client cl works on
keysOf(cl) == IF cfg.type = <<1>> THEN cl ELSE Shared

\* a script's outcome: err (the script raised an error), res (<<>> = no value,
\* <<n>> = integer n) and the keys as the script leaves them (the writes made
\* before an error stay)
Outcome(e, r, v, s) == [err |-> e, res |-> r, val |-> v, perm |-> s]

\* (mutation) the script without its check of the permits against the rate
tryAcquireScript_nocheck(cl, p) ==
    LET rate == ParseInt(cfg.rate)
        interval == ParseInt(cfg.interval)
        k == keysOf(cl)
        set == perm[k]
    IN  IF ~Initialized THEN Outcome(TRUE, <<>>, val, perm)
        ELSE IF val[k] # <<>>
        THEN LET released == SumPermits(zrangebyscore(set, interval))
                 swept == IF released > 0 THEN zremrangebyscore(set, interval) ELSE set
                 current == IF released = 0 THEN val[k][1]
                            ELSE IF val[k][1] + released > rate THEN rate - Len(swept)
                            ELSE val[k][1] + released
                 v1 == [val EXCEPT ![k] = <<current>>]
                 s1 == [perm EXCEPT ![k] = swept]
             IN  IF current < p
                 THEN IF swept = <<>>
                      THEN Outcome(TRUE, <<>>, v1, s1)
                      ELSE Outcome(FALSE, <<Jitter + interval - swept[1][1]>>, v1, s1)
                 ELSE Outcome(FALSE, <<>>, [val EXCEPT ![k] = <<current - p>>],
                              [perm EXCEPT ![k] = zadd(swept, p)])
        ELSE Outcome(FALSE, <<>>, [val EXCEPT ![k] = <<rate - p>>],
                     [perm EXCEPT ![k] = zadd(set, p)])

\* (mutation) a denied request is recorded in the permits set all the same
tryAcquireScript_recordsDenied(cl, p) ==
    LET o == tryAcquireScript_nocheck(cl, p)
        k == keysOf(cl)
    IN  IF ~Initialized \/ ~(ParseInt(cfg.rate) >= p) THEN Outcome(TRUE, <<>>, val, perm)
        ELSE IF ~o.err /\ o.res # <<>>
        THEN Outcome(FALSE, o.res, o.val, [o.perm EXCEPT ![k] = zadd(@, p)])
        ELSE o

tryAcquireScript(cl, p) ==
    LET rate == ParseInt(cfg.rate)
        interval == ParseInt(cfg.interval)
        k == keysOf(cl)
        set == perm[k]
    IN  IF ~Initialized THEN Outcome(TRUE, <<>>, val, perm)
        ELSE IF ~(rate >= p) THEN Outcome(TRUE, <<>>, val, perm)
        ELSE IF val[k] # <<>>
        THEN LET released == SumPermits(zrangebyscore(set, interval))
                 swept == IF released > 0 THEN zremrangebyscore(set, interval) ELSE set
                 current == IF released = 0 THEN val[k][1]
                            ELSE IF val[k][1] + released > rate THEN rate - Len(swept)
                            ELSE val[k][1] + released
                 v1 == [val EXCEPT ![k] = <<current>>]
                 s1 == [perm EXCEPT ![k] = swept]
             IN  IF current < p
                 THEN IF swept = <<>>
                      THEN Outcome(TRUE, <<>>, v1, s1)
                      ELSE Outcome(FALSE, <<Jitter + interval - swept[1][1]>>, v1, s1)
                 ELSE Outcome(FALSE, <<>>, [val EXCEPT ![k] = <<current - p>>],
                              [perm EXCEPT ![k] = zadd(swept, p)])
        ELSE Outcome(FALSE, <<>>, [val EXCEPT ![k] = <<rate - p>>],
                     [perm EXCEPT ![k] = zadd(set, p)])

\* (mutation) the sweep of the available-permits script removes the expired members
\* without giving their permits back
availablePermitsScript_norefill(cl) ==
    LET rate == ParseInt(cfg.rate)
        interval == ParseInt(cfg.interval)
        k == keysOf(cl)
        set == perm[k]
    IN  IF ~Initialized THEN Outcome(TRUE, <<>>, val, perm)
        ELSE IF val[k] = <<>>
        THEN Outcome(FALSE, <<rate>>, [val EXCEPT ![k] = <<rate>>], perm)
        ELSE Outcome(FALSE, val[k], val, [perm EXCEPT ![k] = zremrangebyscore(set, interval)])

availablePermitsScript(cl) ==
    LET rate == ParseInt(cfg.rate)
        interval == ParseInt(cfg.interval)
        k == keysOf(cl)
        set == perm[k]
    IN  IF ~Initialized THEN Outcome(TRUE, <<>>, val, perm)
        ELSE IF val[k] = <<>>
        THEN Outcome(FALSE, <<rate>>, [val EXCEPT ![k] = <<rate>>], perm)
        ELSE LET released == SumPermits(zrangebyscore(set, interval))
                 current == val[k][1] + released
             IN  IF released > 0
                 THEN Outcome(FALSE, <<current>>, [val EXCEPT ![k] = <<current>>],
                              [perm EXCEPT ![k] = zremrangebyscore(set, interval)])
                 ELSE Outcome(FALSE, <<current>>, val, perm)

\* hset of the three fields
hset(rate, interval, mode) ==
    [rate |-> Itoa(rate), interval |-> Itoa(interval), type |-> Itoa(mode)]

\* (mutation) the fields are written whether they exist or not
hsetnx_overwrite(rate, interval, mode) == hset(rate, interval, mode)

\* hsetnx of the three fields, one by one
hsetnx(rate, interval, mode) ==
    [rate |-> IF cfg.rate = <<>> THEN Itoa(rate) ELSE cfg.rate,
     interval |-> IF cfg.interval = <<>> THEN Itoa(interval) ELSE cfg.interval,
     type |-> IF cfg.type = <<>> THEN Itoa(mode) ELSE cfg.type]

\* del KEYS[2], KEYS[3] with the keys setRateLua passes: valueKey(), permitsKey()
setRateScript_del(f) == [f EXCEPT ![Shared] = <<>>]

\* the reply of trySetRateScript: that of its last hsetnx
trySetRateScript_reply == IF cfg.type = <<>> THEN 1 ELSE 0

\* ---- bookkeeping of the model
\* (mutation) every reply that is not an error counts as a grant
Granted_anyReply(o) == ~o.err

\* the script granted the permits (it returned no value and no error)
Granted(o) == ~o.err /\ o.res = <<>>

NoGrants == [cl \in Clients |-> [g \in 0..(MaxInterval - 1) |-> 0]]

\* the grants with one more of p permits to client cl in this millisecond
Record(o, cl, p) ==
    IF Granted(o) THEN [grants EXCEPT ![cl][0] = @ + p] ELSE grants

Returned(op) == [NoRet EXCEPT !.op = op]

\* ---- calls that make one round trip
\* TrySetRate, SetRate and GetConfig touch the keys without a client suffix only:
\* the handle they are called on makes no difference

TrySetRate(mode, rate, rateInterval, unit) ==
    /\ cfg' = hsetnx(rate, ToMillis(unit, rateInterval), mode)
    /\ ret' = [Returned("TrySetRate") EXCEPT !.ok = (trySetRateScript_reply = 1)]
    /\ UNCHANGED <<val, perm, call, grants, clk, apart>>

SetRate(mode, rate, rateInterval, unit) ==
    /\ cfg' = hset(rate, ToMillis(unit, rateInterval), mode)
    /\ val' = setRateScript_del(val)
    /\ perm' = setRateScript_del(perm)
    /\ ret' = Returned("SetRate")
    /\ grants' = NoGrants
    /\ UNCHANGED <<call, clk, apart>>

GetConfig ==
    /\ ret' = IF cfg = NoCfg
              THEN [Returned("GetConfig") EXCEPT !.err = TRUE]
              ELSE [Returned("GetConfig") EXCEPT
                       !.conf = <<ParseInt(cfg.rate), ParseInt(cfg.interval),
                                  ParseInt(cfg.type)>>]
    /\ UNCHANGED <<cfg, val, perm, call, grants, clk, apart>>

TryAcquirePermits(cl, p) ==
    /\ LET o == tryAcquireScript(cl, p) IN
       /\ val' = o.val
       /\ perm' = o.perm
       /\ grants' = Record(o, cl, p)
       /\ ret' = [Returned("TryAcquirePermits") EXCEPT
                     !.err = o.err, !.ok = Granted(o)]
    /\ UNCHANGED <<cfg, call, clk, apart>>

AvailablePermits(cl) ==
    /\ LET o == availablePermitsScript(cl) IN
       /\ val' = o.val
       /\ perm' = o.perm
       /\ ret' = IF o.err \/ o.res = <<>>
                 THEN [Returned("AvailablePermits") EXCEPT !.err = TRUE]
                 ELSE [Returned("AvailablePermits") EXCEPT !.num = o.res[1]]
    /\ UNCHANGED <<cfg, call, grants, clk, apart>>

\* ---- TryAcquirePermitsWithTimeout, and AcquirePermits which calls it with -1

\* the call up to its first tryAcquireLua: start := time.Now()
TryAcquirePermitsWithTimeout_start(c, p, timeout) ==
    /\ call[c].pc = "idle"
    /\ call' = [call EXCEPT ![c] = [NoCall EXCEPT !.pc = "eval",
                   !.op = "TryAcquirePermitsWithTimeout", !.permits = p,
                   !.timeout = timeout, !.limit = timeout]]
    /\ ret' = NoRet
    /\ UNCHANGED <<cfg, val, perm, grants, clk, apart>>

AcquirePermits_start(c, p) ==
    /\ call[c].pc = "idle"
    /\ call' = [call EXCEPT ![c] = [NoCall EXCEPT !.pc = "eval",
                   !.op = "AcquirePermits", !.permits = p,
                   !.timeout = -1, !.limit = -1]]
    /\ ret' = NoRet
    /\ UNCHANGED <<cfg, val, perm, grants, clk, apart>>

\* the return of the outermost call
TryAcquirePermitsWithTimeout_return(c, e, ok) ==
    /\ ret' = [Returned(call[c].op) EXCEPT
                  !.err = e, !.ok = ok]
    /\ call' = [call EXCEPT ![c] = NoCall]

\* (mutation) the call sleeps one millisecond more than it was asked to
TryAcquirePermitsWithTimeout_sleep_long(c, d, then) ==
    /\ call' = [call EXCEPT ![c].pc = "sleep", ![c].nap = Max(d, 0) + 1, ![c].after = then]
    /\ ret' = NoRet

\* time.Sleep(d) has been called: what happens after it is in after
TryAcquirePermitsWithTimeout_sleep(c, d, then) ==
    /\ call' = [call EXCEPT ![c].pc = "sleep", ![c].nap = Max(d, 0), ![c].after = then]
    /\ ret' = NoRet

\* (mutation) the call treats the timeout of AcquirePermits like one that has run out
TryAcquirePermitsWithTimeout_eval_finite(c) ==
    /\ call[c].pc = "eval"
    /\ LET o == tryAcquireScript(clientOf(c), call[c].permits)
           remains == call[c].timeout
       IN
       /\ val' = o.val
       /\ perm' = o.perm
       /\ grants' = Record(o, clientOf(c), call[c].permits)
       /\ IF o.err THEN TryAcquirePermitsWithTimeout_return(c, TRUE, FALSE)
          ELSE IF o.res = <<>> THEN TryAcquirePermitsWithTimeout_return(c, FALSE, TRUE)
          ELSE IF remains <= 0 THEN TryAcquirePermitsWithTimeout_return(c, FALSE, FALSE)
          ELSE IF remains < o.res[1]
               THEN TryAcquirePermitsWithTimeout_sleep(c, remains, "false")
          ELSE TryAcquirePermitsWithTimeout_sleep(c, o.res[1], "retry")
    /\ UNCHANGED <<cfg, clk, apart>>

\* tryAcquireLua and what follows it up to a return or a time.Sleep
TryAcquirePermitsWithTimeout_eval(c) ==
    /\ call[c].pc = "eval"
    /\ LET o == tryAcquireScript(clientOf(c), call[c].permits)
           remains == call[c].timeout
       IN
       /\ val' = o.val
       /\ perm' = o.perm
       /\ grants' = Record(o, clientOf(c), call[c].permits)
       /\ IF o.err THEN TryAcquirePermitsWithTimeout_return(c, TRUE, FALSE)
          ELSE IF o.res = <<>> THEN TryAcquirePermitsWithTimeout_return(c, FALSE, TRUE)
          ELSE IF call[c].timeout < 0
               THEN TryAcquirePermitsWithTimeout_sleep(c, o.res[1], "retry")
          ELSE IF remains <= 0 THEN TryAcquirePermitsWithTimeout_return(c, FALSE, FALSE)
          ELSE IF remains < o.res[1]
               THEN TryAcquirePermitsWithTimeout_sleep(c, remains, "false")
          ELSE TryAcquirePermitsWithTimeout_sleep(c, o.res[1], "retry")
    /\ UNCHANGED <<cfg, clk, apart>>

\* (mutation) the call returns after its sleep without asking the store again
TryAcquirePermitsWithTimeout_wake_return(c) ==
    /\ call[c].pc = "sleep"
    /\ call[c].nap = 0
    /\ TryAcquirePermitsWithTimeout_return(c, FALSE, call[c].after # "false")
    /\ UNCHANGED <<cfg, val, perm, grants, clk, apart>>

\* time.Sleep has returned
TryAcquirePermitsWithTimeout_wake(c) ==
    /\ call[c].pc = "sleep"
    /\ call[c].nap = 0
    /\ IF call[c].after = "false"
       THEN TryAcquirePermitsWithTimeout_return(c, FALSE, FALSE)
       ELSE IF call[c].limit >= 0 /\ call[c].timeout <= 0
       THEN TryAcquirePermitsWithTimeout_return(c, FALSE, FALSE)
       ELSE /\ call' = [call EXCEPT ![c].pc = "eval", ![c].after = ""]
            /\ ret' = NoRet
    /\ UNCHANGED <<cfg, val, perm, grants, clk, apart>>

\* ---- time
\* the caller has a step to take now
Busy(c) == call[c].pc = "eval" \/ (call[c].pc = "sleep" /\ call[c].nap = 0)

Older(s) == [i \in 1..Len(s) |-> <<Min(s[i][1] + 1, AgeCap), s[i][2]>>]

\* one millisecond passes
Elapse ==
    /\ \A c \in Callers : ~Busy(c)
    /\ perm' = [b \in Buckets |-> Older(perm[b])]
    /\ grants' = [cl \in Clients |-> [g \in 0..(MaxInterval - 1) |->
                     IF g = 0 THEN 0 ELSE grants[cl][g - 1]]]
    /\ call' = [c \in Callers |->
                   IF call[c].pc = "sleep"
                   THEN [call[c] EXCEPT
                            !.nap = @ - 1,
                            !.timeout = IF @ > 0 THEN @ - 1 ELSE @,
                            !.slept = IF call[c].limit >= 0 THEN @ + 1 ELSE @]
                   ELSE call[c]]
    /\ ret' = NoRet
    /\ UNCHANGED <<cfg, val, apart>>

Millisecond == Elapse /\ UNCHANGED clk

\* ---- specifications
Modes == {RateTypeOVERALL, RateTypePER_CLIENT}
Units == {"Milliseconds", "Seconds"}

\* a limiter that TrySetRate or SetRate has just configured
InitLimiter ==
    /\ InitLocks /\ kind = "lock" /\ Unused
    /\ cfg \in {hset(r, i, m) : r \in 1..MaxRate, i \in 1..MaxInterval, m \in Modes}
    /\ val = [b \in Buckets |-> <<>>]
    /\ perm = [b \in Buckets |-> <<>>]
    /\ call = [c \in Callers |-> NoCall]
    /\ ret = NoRet
    /\ grants = NoGrants
    /\ clk = 0

\* a configured limiter whose configuration stays: any calls at any time
NextLimiter ==
    \/ \E cl \in Clients, p \in PermitSizes : TryAcquirePermits(cl, p)
    \/ \E cl \in Clients : AvailablePermits(cl)
    \/ \E c \in Blockers, p \in PermitSizes, d \in Timeouts :
           TryAcquirePermitsWithTimeout_start(c, p, d)
    \/ \E c \in Blockers, p \in PermitSizes : AcquirePermits_start(c, p)
    \/ \E c \in Blockers : TryAcquirePermitsWithTimeout_eval(c)
    \/ \E c \in Blockers : TryAcquirePermitsWithTimeout_wake(c)
    \/ Millisecond

SpecLimiter == InitLimiter /\ [][NextLimiter]_vars

\* a name without a configuration, and what the single calls do to it within one
\* millisecond: the configuration is set and overwritten again and again
InitConfig == InitLocks /\ kind = "lock" /\ NoLimiter /\ Unused

NextConfig ==
    \/ \E m \in Modes, r \in 1..MaxRate, i \in 1..MaxIntervalArg, u \in Units :
           TrySetRate(m, r, i, u)
    \/ \E m \in Modes, r \in 1..MaxRate, i \in 1..MaxIntervalArg, u \in Units :
           SetRate(m, r, i, u)
    \/ GetConfig
    \/ \E cl \in Clients, p \in PermitSizes : TryAcquirePermits(cl, p)
    \/ \E cl \in Clients : AvailablePermits(cl)

SpecConfig == InitConfig /\ [][NextConfig]_vars

\* a name without a configuration that TrySetRate configures once, and every call
\* on it within one millisecond: a caller that went to sleep stays asleep
NextErrors ==
    \/ \E m \in Modes, r \in 1..MaxRate, i \in 1..MaxIntervalArg, u \in Units :
           TrySetRate(m, r, i, u)
    \/ GetConfig
    \/ \E cl \in Clients, p \in PermitSizes : TryAcquirePermits(cl, p)
    \/ \E cl \in Clients : AvailablePermits(cl)
    \/ \E c \in Blockers, p \in PermitSizes, d \in Timeouts :
           TryAcquirePermitsWithTimeout_start(c, p, d)
    \/ \E c \in Blockers, p \in PermitSizes : AcquirePermits_start(c, p)
    \/ \E c \in Blockers : TryAcquirePermitsWithTimeout_eval(c)

SpecErrors == InitConfig /\ [][NextErrors]_vars

\* ================================================================ rate limiter: properties

\* the configuration in force
Rate == ParseInt(cfg.rate)
Interval == ParseInt(cfg.interval)
PerClient == cfg.type = <<1>>

\* permits granted to client cl in the window of the last Interval milliseconds
RECURSIVE GrantedSince(_, _)
GrantedSince(cl, n) == IF n = 0 THEN 0 ELSE grants[cl][n - 1] + GrantedSince(cl, n - 1)

GrantedTo(cl) == GrantedSince(cl, Min(Interval, MaxInterval))

RECURSIVE GrantedToAll(_)
GrantedToAll(n) == IF n = 0 THEN 0 ELSE GrantedTo(n) + GrantedToAll(n - 1)

Outstanding(set) == SumPermits(zremrangebyscore(set, Interval))

\* C12: after any script, in either mode, the stored available count of the
\* bucket a client draws from plus the permits of its members still within the
\* window is at most the rate.
C12_AvailablePlusOutstanding ==
    Initialized =>
        \A cl \in Clients :
            val[keysOf(cl)] # <<>> =>
                val[keysOf(cl)][1] + Outstanding(perm[keysOf(cl)]) <= Rate

\* ---------------------------------------------------------------- saturation
\* TestRateLimiter_TokenReplenishment, first part: a limiter configured OVERALL
\* with a full bucket, and TryAcquire calls by any client, all within the
\* interval that starts with the configuration.
TryAcquire(cl) == TryAcquirePermits(cl, 1)

InitSaturation ==
    /\ InitLimiter
    /\ ~PerClient

\* a millisecond of the first interval passes
Saturation_Millisecond ==
    /\ clk < Interval - 1
    /\ Elapse
    /\ clk' = clk + 1

NextSaturation ==
    \/ \E cl \in Clients : TryAcquire(cl)
    \/ \E cl \in Clients : AvailablePermits(cl)
    \/ Saturation_Millisecond

SpecSaturation == InitSaturation /\ [][NextSaturation]_vars

\* C13: from a full OVERALL bucket of rate R, the single-permit TryAcquire calls
\* of one interval return true until R of them have, and false (never an error)
\* from then on: exactly R return true.
C13_Saturation ==
    ret.op = "TryAcquirePermits" =>
        /\ ~ret.err
        /\ IF ret.ok THEN GrantedToAll(NumClients) <= Rate
           ELSE GrantedToAll(NumClients) = Rate

\* two clients were granted the two permits of the bucket in different
\* milliseconds of the interval and the next TryAcquire returned false
C13_Saturated ==
    /\ Rate = 2 /\ Interval = 2 /\ clk = 1
    /\ grants[1][1] = 1 /\ grants[2][0] = 1
    /\ ret.op = "TryAcquirePermits" /\ ~ret.ok

\* no permit has been granted from the bucket of client cl for a full interval
Quiet(cl) == IF PerClient THEN GrantedTo(cl) = 0 ELSE GrantedToAll(NumClients) = 0

\* C14: an AvailablePermits call made when no permit has been granted from the
\* caller's bucket for a full interval returns the rate, without error.
C14_Refill ==
    [][\A cl \in Clients :
          (Quiet(cl) /\ AvailablePermits(cl)) => (~ret'.err /\ ret'.num = Rate)]_vars

\* two permits were granted a full interval ago, none since, and AvailablePermits
\* has just returned the rate
C14_Refilled ==
    /\ ~PerClient /\ Rate = 2 /\ Interval = 1
    /\ grants[1][1] + grants[2][1] = 2
    /\ GrantedToAll(NumClients) = 0
    /\ ret.op = "AvailablePermits" /\ ret.num = 2
    /\ val[Shared] = <<2>> /\ perm[Shared] = <<>>

\* C15: TrySetRate returns true exactly when the name has no configuration, and
\* then stores rate, interval in ms and type; on a configured name it returns
\* false and leaves the hash as it is; GetConfig reports the values stored.
C15_TrySetRateOnce ==
    /\ [][\A m \in Modes, r \in 1..MaxRate, i \in 1..MaxIntervalArg, u \in Units :
             TrySetRate(m, r, i, u) =>
                 IF cfg = NoCfg
                 THEN /\ ret'.ok
                      /\ <<ParseInt(cfg'.rate), ParseInt(cfg'.interval),
                           ParseInt(cfg'.type)>> = <<r, ToMillis(u, i), m>>
                 ELSE ~ret'.ok /\ cfg' = cfg]_vars
    /\ [](ret.op = "GetConfig" /\ ~ret.err =>
              cfg = hset(ret.conf[1], ret.conf[2], ret.conf[3]))

\* a second TrySetRate has returned false on a limiter that the first one
\* configured with rate 1 per second, PER_CLIENT
C15_SecondRefused ==
    /\ ret.op = "TrySetRate" /\ ~ret.ok
    /\ cfg = hset(1, 1000, RateTypePER_CLIENT)

\* the bucket client cl draws from is full: its keys are absent and a request for
\* p permits is granted and leaves rate - p
FullFor(cl, p) ==
    /\ val[keysOf(cl)] = <<>>
    /\ perm[keysOf(cl)] = <<>>
    /\ Granted(tryAcquireScript(cl, p))
    /\ tryAcquireScript(cl, p).val[keysOf(cl)] = <<Rate - p>>

\* C16: SetRate overwrites the configuration with its arguments and resets the
\* limiter, in OVERALL and in PER_CLIENT mode: after it the keys every client's
\* acquisitions use are absent and a request for p <= rate permits is granted
\* from a bucket of rate.
C16_SetRateResets ==
    [][\A m \in Modes, r \in 1..MaxRate, i \in 1..MaxIntervalArg, u \in Units :
          SetRate(m, r, i, u) =>
              /\ <<ParseInt(cfg'.rate), ParseInt(cfg'.interval), ParseInt(cfg'.type)>>
                     = <<r, ToMillis(u, i), m>>
              /\ \A cl \in Clients, p \in 1..r : FullFor(cl, p)']_vars

\* a call that reads the configuration completes in this step
ReadsConfig ==
    \/ GetConfig
    \/ \E cl \in Clients, p \in PermitSizes : TryAcquirePermits(cl, p)
    \/ \E cl \in Clients : AvailablePermits(cl)
    \/ \E c \in Callers : TryAcquirePermitsWithTimeout_eval(c)

\* C17: while the config hash is absent, GetConfig, TryAcquirePermits,
\* AvailablePermits and the blocking calls return an error (no true, no count,
\* no configuration, no sleep) and leave every value key and permits key alone.
C17_NotInitialised ==
    [][(cfg = NoCfg /\ ReadsConfig) =>
          /\ ret'.op # "" /\ ret'.err /\ ~ret'.ok /\ ret'.num = 0 /\ ret'.conf = <<>>
          /\ \A c \in Callers : call'[c].pc = "idle" \/ call'[c] = call[c]
          /\ UNCHANGED <<val, perm, cfg>>]_vars

\* AcquirePermits has returned an error on a name without configuration
C17_AcquireFailed == cfg = NoCfg /\ ret.op = "AcquirePermits" /\ ret.err

\* C18: a request for more permits than the rate fails with an error and leaves
\* the value keys and the permits sets as they are: TryAcquirePermits returns the
\* error, and a blocking call returns it from its first script call, so it never
\* sleeps.
C18_TooManyPermits ==
    /\ [][/\ \A cl \in Clients, p \in PermitSizes :
                (p > Rate /\ TryAcquirePermits(cl, p)) =>
                    (ret'.err /\ ~ret'.ok /\ UNCHANGED <<val, perm>>)
          /\ \A c \in Callers :
                (call[c].permits > Rate /\ TryAcquirePermitsWithTimeout_eval(c)) =>
                    /\ ret'.op = call[c].op /\ ret'.err /\ ~ret'.ok
                    /\ call'[c].pc = "idle"
                    /\ UNCHANGED <<val, perm>>]_vars
    /\ [](\A c \in Callers : call[c].permits > Rate => call[c].pc # "sleep")

\* TryAcquirePermitsWithTimeout has returned an error on a shared bucket of rate 2
\* of which one permit is taken
C18_Refused ==
    /\ ~PerClient /\ Rate = 2
    /\ ret.op = "TryAcquirePermitsWithTimeout" /\ ret.err
    /\ val[Shared] = <<1>> /\ Len(perm[Shared]) = 1

\* caller c is inside a TryAcquirePermitsWithTimeout call with a timeout >= 0
Timed(c) == call[c].op = "TryAcquirePermitsWithTimeout" /\ call[c].limit >= 0

\* the reply of the store to the script call caller c is about to make
Reply(c) == tryAcquireScript(clientOf(c), call[c].permits)

\* the permits of all members of the bucket of caller c plus what its value key
\* lacks: the script call of this step took nothing from the bucket
TookNothing(c) ==
    LET k == keysOf(clientOf(c)) IN
    /\ SumPermits(perm'[k]) <= SumPermits(perm[k])
    /\ val[k] # <<>> => val'[k] # <<>> /\ val'[k][1] >= val[k][1]
    /\ val[k] = <<>> => val'[k] = <<>>

\* C19: a TryAcquirePermitsWithTimeout call with timeout >= 0 returns true exactly
\* from a script call that returned no value; a script call that returns a delay
\* takes no permit and makes the call return false at once when no time remains,
\* sleep exactly the remaining time and then return false when the remaining time
\* is less than the delay, and sleep the delay otherwise; after that sleep it
\* returns false if no time remains and calls the script again if some does; the
\* time slept in all never exceeds the timeout.
C19_TimedAcquire ==
    /\ [][\A c \in Callers :
             /\ (Timed(c) /\ TryAcquirePermitsWithTimeout_eval(c)) =>
                   /\ ret'.ok <=> Granted(Reply(c))
                   /\ ret'.ok => ret'.op = call[c].op /\ call'[c].pc = "idle"
                   /\ (~Reply(c).err /\ Reply(c).res # <<>>) =>
                         /\ TookNothing(c)
                         /\ IF call[c].timeout <= 0
                            THEN ret'.op = call[c].op /\ ~ret'.ok /\ ~ret'.err
                                 /\ call'[c].pc = "idle"
                            ELSE /\ call'[c].pc = "sleep" /\ ret' = NoRet
                                 /\ IF call[c].timeout < Reply(c).res[1]
                                    THEN call'[c].nap = call[c].timeout
                                         /\ call'[c].after = "false"
                                    ELSE call'[c].nap = Reply(c).res[1]
                                         /\ call'[c].after = "retry"
             /\ (Timed(c) /\ TryAcquirePermitsWithTimeout_wake(c)) =>
                   /\ ~ret'.ok /\ ~ret'.err
                   /\ IF call[c].after = "false"
                      THEN ret'.op = call[c].op /\ call[c].slept = call[c].limit
                      ELSE IF call[c].timeout <= 0
                      THEN ret'.op = call[c].op
                      ELSE call'[c].pc = "eval" /\ ret' = NoRet]_vars
    /\ [](\A c \in Callers :
             Timed(c) => /\ call[c].slept <= call[c].limit
                         /\ call[c].pc = "sleep" =>
                                call[c].slept + call[c].nap <= call[c].limit)

\* a call with the largest timeout slept the delay, was denied again on its retry
\* and has now slept the rest of its timeout
C19_SleptItsTimeout ==
    \E c \in Callers :
        /\ Timed(c) /\ call[c].limit = MaxTimeout
        /\ call[c].pc = "sleep" /\ call[c].after = "false" /\ call[c].nap = 0
        /\ call[c].slept = MaxTimeout
        /\ Interval = 1 /\ Rate = 1

\* ---- concurrent Acquire() calls that start together on a full bucket
Acquire_called(c) == [NoCall EXCEPT !.pc = "eval", !.op = "AcquirePermits",
                         !.permits = 1, !.timeout = -1, !.limit = -1]

InitStaged ==
    /\ InitLocks /\ kind = "lock" /\ Unused
    /\ cfg \in {hset(r, i, RateTypeOVERALL) : r \in 1..MaxRate, i \in 1..MaxInterval}
    /\ val = [b \in Buckets |-> <<>>]
    /\ perm = [b \in Buckets |-> <<>>]
    /\ call = [c \in Callers |-> Acquire_called(c)]
    /\ ret = NoRet
    /\ grants = NoGrants
    /\ clk = 0

\* a millisecond passes while the calls are asleep or have returned
Staged_Millisecond ==
    /\ clk < Horizon
    /\ Elapse
    /\ clk' = clk + 1

NextStaged ==
    \/ \E c \in Callers : TryAcquirePermitsWithTimeout_eval(c)
    \/ \E c \in Callers : TryAcquirePermitsWithTimeout_wake(c)
    \/ Staged_Millisecond

SpecStaged == InitStaged /\ [][NextStaged]_vars

\* the Acquire() calls that have returned
Completed == Cardinality({c \in Callers : call[c].pc = "idle"})

\* every call has done what it does in the current millisecond
Settled == \A c \in Callers : ~Busy(c)

\* no Acquire() call returns except from a script call that granted its permit
ReturnsOnGrant ==
    \A c \in Callers :
        (call[c].pc # "idle" /\ call'[c].pc = "idle") =>
            /\ call[c].pc = "eval" /\ Granted(Reply(c))
            /\ grants'[clientOf(c)][0] = grants[clientOf(c)][0] + 1
            /\ ret'.op = "AcquirePermits" /\ ret'.ok /\ ~ret'.err

\* C20 (as stated): R calls complete during the first interval and each later
\* group of R during the next one: when the k-th interval [k*I, (k+1)*I) ends,
\* min(N, (k+1)*R) calls have returned; no call returns before its permit is
\* granted.
C20_StagedByInterval ==
    /\ [][ReturnsOnGrant]_vars
    /\ []((Settled /\ (clk + 1) % Interval = 0) =>
             Completed = Min(NumCallers, Rate * ((clk \div Interval) + 1)))

\* C20 (amended): R calls complete at once and each later group of R completes
\* the interval plus 3 ms after the group before it: at time t,
\* min(N, R * (t div (I + 3) + 1)) calls have returned; no call returns before
\* its permit is granted.
C20_StagedByDelay ==
    /\ [][ReturnsOnGrant]_vars
    /\ [](Settled =>
             Completed = Min(NumCallers, Rate * ((clk \div (Interval + Jitter)) + 1)))

\* rate 1, interval 2 ms: the second call has just returned, 5 ms after the start
\* and so in the third interval, and the third call sleeps another 5 ms
C20_SecondGroupLate ==
    /\ Rate = 1 /\ Interval = 2 /\ clk = Interval + Jitter
    /\ Settled /\ Completed = 2
    /\ \E c \in Callers : call[c].pc = "sleep" /\ call[c].nap = Interval + Jitter

\* a step in which client cl runs one of the scripts that take or count permits
Draws(cl) ==
    \/ \E p \in PermitSizes : TryAcquirePermits(cl, p)
    \/ AvailablePermits(cl)
    \/ \E c \in Callers : clientOf(c) = cl /\ TryAcquirePermitsWithTimeout_eval(c)

\* the buckets a call of client cl must leave alone
Foreign(cl) == IF PerClient THEN Buckets \ {cl} ELSE Clients

\* C21: in PER_CLIENT mode a script run by a client leaves the value key and the
\* permits set of every other client (and the shared ones) as they were, so what
\* another client can still get is not reduced; in OVERALL mode a script writes the
\* shared keys only, no key with a client suffix exists, and every client gets the
\* same reply from the same script: all draw from one budget.
C21_ModeIsolation ==
    /\ [][\A cl \in Clients :
             Draws(cl) =>
                 /\ \A b \in Foreign(cl) : val'[b] = val[b] /\ perm'[b] = perm[b]
                 /\ PerClient =>
                       \A o \in Clients \ {cl} :
                           availablePermitsScript(o)'.res = availablePermitsScript(o).res]_vars
    /\ [](~PerClient =>
             /\ \A cl \in Clients : val[cl] = <<>> /\ perm[cl] = <<>>
             /\ \A x, y \in Clients :
                   /\ availablePermitsScript(x) = availablePermitsScript(y)
                   /\ \A p \in PermitSizes : tryAcquireScript(x, p) = tryAcquireScript(y, p))
    /\ [](PerClient => val[Shared] = <<>> /\ perm[Shared] = <<>>)

\* PER_CLIENT, rate 2: client 1 has used its bucket up and client 2, whose permits
\* set holds nothing, has just been told that two permits are available to it
C21_OtherClientUntouched ==
    /\ PerClient /\ Rate = 2
    /\ val[1] = <<0>> /\ SumPermits(perm[1]) = 2
    /\ perm[2] = <<>>
    /\ ret.op = "AvailablePermits" /\ ret.num = 2

\* ================================================================ client options
(***************************************************************************)
(* NewRedisson with its WithWatchDogTimeout options, the lease a lock      *)
(* handle takes from its client and the period of the renewal timer.       *)
(* Durations are counted in milliseconds (time.Duration counts             *)
(* nanoseconds; t.Seconds() < 30 is t < 30000 ms).                         *)
(***************************************************************************)

\* (mutation) the option takes every duration as it is
WithWatchDogTimeout_any(g, t) == t

\* the OptionFunc WithWatchDogTimeout(t) applied to a client whose
\* watchDogTimeout is g: the new watchDogTimeout
WithWatchDogTimeout(g, t) == IF t < 30 * 1000 THEN DefaultWatchDogTimeout ELSE t

\* for _, opt := range opts { opt(g) }
RECURSIVE ApplyOpts(_, _)
ApplyOpts(g, os) ==
    IF os = <<>> THEN g ELSE ApplyOpts(WithWatchDogTimeout(g, Head(os)), Tail(os))

RECURSIVE SeqsUpTo(_, _)
SeqsUpTo(S, n) ==
    IF n = 0 THEN {<<>>}
    ELSE SeqsUpTo(S, n - 1) \cup
         {Append(q, x) : q \in {r \in SeqsUpTo(S, n - 1) : Len(r) = n - 1}, x \in S}

NewRedisson(os) ==
    /\ watchDogTimeout = <<>>
    /\ opts' = os
    /\ watchDogTimeout' = <<ApplyOpts(DefaultWatchDogTimeout, os)>>
    /\ UNCHANGED <<internalLockLeaseTime, timerPeriod, locks, limiter, naming>>

\* GetLock / GetMutex: newBaseLock copies the client's watchDogTimeout
GetLock ==
    /\ watchDogTimeout # <<>>
    /\ internalLockLeaseTime = <<>>
    /\ internalLockLeaseTime' = watchDogTimeout
    /\ UNCHANGED <<opts, watchDogTimeout, timerPeriod, locks, limiter, naming>>

\* renewExpiration: time.NewTimer(m.internalLockLeaseTime / 3)
renewExpiration_NewTimer ==
    /\ internalLockLeaseTime # <<>>
    /\ timerPeriod = <<>>
    /\ timerPeriod' = <<internalLockLeaseTime[1] \div 3>>
    /\ UNCHANGED <<opts, watchDogTimeout, internalLockLeaseTime, locks, limiter, naming>>

InitOptions == InitLocks /\ kind = "lock" /\ NoLimiter /\ NoClient /\ NoNames

NextOptions ==
    \/ \E os \in SeqsUpTo(Durations, MaxOpts) : NewRedisson(os)
    \/ GetLock
    \/ renewExpiration_NewTimer

SpecOptions == InitOptions /\ [][NextOptions]_vars

\* C22: the lease of a lock handle is never below 30 seconds: it is the duration
\* given to WithWatchDogTimeout when that is at least 30 s and 30 s otherwise
\* (the last option counts when several are given), and 30 s without the option;
\* the renewal timer's period is the lease divided by 3.
C22_LeaseAtLeast30s ==
    /\ watchDogTimeout # <<>> =>
          /\ watchDogTimeout[1] >= 30000
          /\ opts = <<>> => watchDogTimeout[1] = 30000
          /\ opts # <<>> =>
                watchDogTimeout[1] = IF opts[Len(opts)] >= 30000 THEN opts[Len(opts)]
                                     ELSE 30000
    /\ internalLockLeaseTime # <<>> =>
          internalLockLeaseTime = watchDogTimeout /\ internalLockLeaseTime[1] >= 30000
    /\ timerPeriod # <<>> =>
          /\ timerPeriod[1] * 3 <= internalLockLeaseTime[1]
          /\ internalLockLeaseTime[1] < (timerPeriod[1] + 1) * 3
          /\ timerPeriod[1] >= 10000

\* TestWithWatchDogTimeout2: the client was made with a timeout of one second and
\* the renewal timer of its lock runs every ten seconds
C22_OneSecondUpgraded ==
    opts = <<1000>> /\ internalLockLeaseTime = <<30000>> /\ timerPeriod = <<10000>>

\* ================================================================ names
(***************************************************************************)
(* RedissonObject.prefixName and suffixName on strings kept as sequences   *)
(* of characters.                                                          *)
(***************************************************************************)

\* strings.Contains(s, ch) for a one-character ch
Contains(s, ch) == \E i \in 1..Len(s) : s[i] = ch

\* (mutation) the name is wrapped whether it has a hash tag or not
prefixName_wrapAlways(prefix, name) == prefix \o <<":", "{">> \o name \o <<"}">>

prefixName(prefix, name) ==
    IF Contains(name, "{") THEN prefix \o <<":">> \o name
    ELSE prefix \o <<":", "{">> \o name \o <<"}">>

suffixName(name, suffix) ==
    IF Contains(name, "{") THEN name \o <<":">> \o suffix
    ELSE <<"{">> \o name \o <<"}", ":">> \o suffix

\* o.prefixName(prefix, name) is called
prefixName_call ==
    /\ nameOut' = [op |-> "prefixName", key |-> prefixName(nameArgs.prefix, nameArgs.name)]
    /\ UNCHANGED <<nameArgs, locks, limiter, options>>

\* o.suffixName(name, suffix) is called
suffixName_call ==
    /\ nameOut' = [op |-> "suffixName", key |-> suffixName(nameArgs.name, nameArgs.suffix)]
    /\ UNCHANGED <<nameArgs, locks, limiter, options>>

\* any name of up to MaxLen characters, any prefix and suffix of up to one
InitNames ==
    /\ InitLocks /\ kind = "lock" /\ NoLimiter /\ NoClient
    /\ nameArgs \in [prefix : SeqsUpTo(Chars, 1), name : SeqsUpTo(Chars, MaxLen),
                     suffix : SeqsUpTo(Chars, 1)]
    /\ nameOut = NoKey

NextNames == prefixName_call \/ suffixName_call

SpecNames == InitNames /\ [][NextNames]_vars

\* the name N in its hash tag
Tagged(N) == <<"{">> \o N \o <<"}">>

\* C23: for every prefix p, suffix s and name N without '{',
\* prefixName(p, N) = prefixName(p, "{N}") = "p:{N}" and
\* suffixName(N, s) = suffixName("{N}", s) = "{N}:s"; a name that contains '{' is
\* used as it is; and the calls return these strings.
C23_HashTagIdempotent ==
    LET p == nameArgs.prefix
        N == nameArgs.name
        s == nameArgs.suffix
    IN  /\ ~Contains(N, "{") =>
              /\ prefixName(p, N) = p \o <<":">> \o Tagged(N)
              /\ prefixName(p, Tagged(N)) = p \o <<":">> \o Tagged(N)
              /\ suffixName(N, s) = Tagged(N) \o <<":">> \o s
              /\ suffixName(Tagged(N), s) = Tagged(N) \o <<":">> \o s
        /\ Contains(N, "{") =>
              /\ prefixName(p, N) = p \o <<":">> \o N
              /\ suffixName(N, s) = N \o <<":">> \o s
        /\ nameOut.op = "prefixName" =>
              nameOut.key = p \o <<":">> \o (IF Contains(N, "{") THEN N ELSE Tagged(N))
        /\ nameOut.op = "suffixName" =>
              nameOut.key = (IF Contains(N, "{") THEN N ELSE Tagged(N)) \o <<":">> \o s

\* prefixName("a", "{a}") has returned "a:{a}", as prefixName("a", "a") does
C23_TaggedNameKept ==
    /\ nameArgs.prefix = <<"a">> /\ nameArgs.name = <<"{", "a", "}">>
    /\ nameOut = [op |-> "prefixName", key |-> <<"a", ":", "{", "a", "}">>]
    /\ prefixName(<<"a">>, <<"a">>) = nameOut.key

\* ================================================================ renewal registry: properties

\* the timer goroutines of handle h that have not returned
TimersOf(h) == {k \in TimerIds : timers[k].pc # "free" /\ timers[k].h = h}

\* the count of task t in the entry stored for handle h, 0 without entry or id
CountOf(h, t) ==
    IF regMap[h] = 0 THEN 0
    ELSE LET ids == ents[regMap[h]].ids
             i == IndexOf(ids, t)
         IN  IF i = 0 THEN 0 ELSE ids[i][2]

\* the entry of handle h lists task t and a timer goroutine renews for it
Covered(h, t) == CountOf(h, t) > 0 /\ TimersOf(h) # {}

\* C24: whenever a task's LockContext has returned nil and the task has not yet
\* started its final Unlock, the registry of the lock handle holds an entry that
\* lists the task with a positive count and has a renewal timer, whatever other
\* tasks' Unlock calls and the timer goroutines did in between.
C24_WatchdogCoverage ==
    \A t \in Tasks : Holds(t) => \E h \in Handles : Covered(h, t)

\* the timer goroutines of handle h that wait for their timer to fire
Pending(h) == {k \in TimerIds : timers[k].pc = "wait" /\ timers[k].h = h}

\* C25: in every reachable state a lock has at most one pending renewal timer
\* (so none whose cancelFunc another timer's has replaced in the entry); an acquire
\* that finds an entry stored adds to the task's count and starts no timer.
C25_OneTimerPerEntry ==
    /\ [](\A h \in Handles : Cardinality(Pending(h)) <= 1)
    /\ [][\A t \in Tasks :
             (pc[t] = "add" /\ ~isNew[t] /\ pc'[t] # "add") =>
                 /\ UNCHANGED timers
                 /\ pc'[t] = "idle"
                 /\ regMap[hnd[t]] = ent[t] =>
                       ents'[ent[t]].ids = addGoroutineId(ents[ent[t]].ids, t)]_vars

\* C26: an Unlock by task T takes one from T's count in the entry and removes T at
\* zero; the timer is cancelled and the entry removed when no task is listed any
\* more and only then: the Unlock that cancels the timer and deletes the entry
\* does so for an entry that lists nobody, and once it has returned no timer
\* goroutine is left to renew the lock.
C26_CancelOnLastRelease ==
    [][\A t \in Tasks :
          /\ (pc[t] = "u_rm" /\ pc'[t] # "u_rm") =>
                ents'[ent[t]].ids = removeGoroutineId(ents[ent[t]].ids, t)
          /\ (pc[t] = "u_chk" /\ pc'[t] = "idle") => UNCHANGED <<regMap, timers>>
          /\ (pc[t] \in {"u_cancel", "u_del"} /\ pc'[t] # pc[t]) =>
                hasNoThreads(ents[ent[t]].ids)
          /\ (pc[t] = "u_del" /\ pc'[t] = "idle") =>
                (regMap'[hnd[t]] = 0 /\ \A k \in TimerIds : timers'[k].pc = "free")]_vars

\* the timer goroutine k takes a step from position p
TimerMoves(k, p) == timers[k].pc = p /\ TimerStep(k)

\* the goroutine k has returned and has not started another timer
Returns(k) == timers'[k].pc = "free"

\* the goroutine k has started the next timer, due in lease/3
Rescheduled(k) == timers'[k].pc = "wait" /\ timers'[k].cd = RenewPeriod

\* what the claim says of the steps up to the outcome of the renew script and of
\* the steps after a 0 and after an error
FireAndRenew(k) ==
    LET h == timers[k].h IN
    /\ (TimerMoves(k, "wait") /\ timers[k].cd = 0) =>
          /\ UNCHANGED <<store, regMap>>
          /\ IF regMap[h] = 0 \/ ents[regMap[h]].ids = <<>>
             THEN Returns(k)
             ELSE timers'[k].pc = "renewcall"
                  /\ timers'[k].gid = ents[regMap[h]].ids[1][1]
    /\ TimerMoves(k, "renewcall") =>
          /\ UNCHANGED <<hash, str, regMap>>
          /\ IF ~storeUp \/ timers[k].cancelled
             THEN timers'[k].pc = "errdel" /\ UNCHANGED ttl
             ELSE IF (kind = "lock" /\ hash[timers[k].gid] > 0) \/ (kind = "mutex" /\ str # 0)
             THEN timers'[k].pc = "resched" /\ ttl' = Lease
             ELSE timers'[k].pc = "c_load" /\ UNCHANGED ttl
    /\ TimerMoves(k, "errdel") =>
          (regMap'[h] = 0 /\ Returns(k) /\ UNCHANGED store)
    /\ TimerMoves(k, "c_load") =>
          /\ UNCHANGED <<store, regMap>>
          /\ IF regMap[h] = 0 THEN Returns(k) ELSE timers'[k].pc = "c_del"
    /\ TimerMoves(k, "c_del") =>
          (regMap'[h] = 0 /\ Returns(k) /\ UNCHANGED store)

\* C27 (as stated): when the timer fires the renew script is evaluated for the
\* first task id of the entry in insertion order, and nothing is sent to the store
\* when there is no entry; after a 1 the timer is rescheduled at lease/3; after a 0
\* and after a transport error the entry is evicted and no timer is rescheduled.
C27_TimerFireProtocol ==
    [][\A k \in TimerIds :
          /\ FireAndRenew(k)
          /\ TimerMoves(k, "resched") => Rescheduled(k)]_vars

\* C27 (amended): the same, but after a 1 the timer is rescheduled at lease/3 only
\* if an entry is still stored for the lock; if it has been removed meanwhile the
\* goroutine returns and starts no timer.
C27_TimerFireProtocolWhileStored ==
    [][\A k \in TimerIds :
          /\ FireAndRenew(k)
          /\ TimerMoves(k, "resched") =>
                /\ UNCHANGED <<store, regMap>>
                /\ IF regMap[timers[k].h] = 0 THEN Returns(k)
                   ELSE Rescheduled(k) /\ ents'[regMap[timers[k].h]].cancel = k]_vars

\* the renew script has returned 1 and the entry has been removed since
C27_RenewedButRemoved ==
    \E k \in TimerIds : timers[k].pc = "resched" /\ regMap[timers[k].h] = 0

\* every way an Unlock can go: one task locks the reentrant lock, locks it again
\* while it holds it and unlocks it; the other tasks only ask for the lock, and
\* the connection can fail
Owner == 1

NextPaths ==
    \/ \E t \in Tasks : Lock(t)
    \/ Relock(Owner)
    \/ Unlock(Owner)
    \/ Core
    \/ Disconnect

SpecPaths == InitLock /\ [][NextPaths]_vars

\* C28: every Unlock call goes through cancelExpirationRenewal whatever its script
\* gave (0, 1, none or a transport error): the call that has run its script loads
\* the entry of its handle, and when one is stored it takes one off the caller's
\* count there, and when the entry then lists nobody it calls the entry's cancel
\* function and deletes the entry from the map.
C28_NotifiedOnEveryPath ==
    [][\A t \in Tasks :
          /\ (pc[t] = "idle" /\ pc'[t] \in UnlockPcs) =>
                (pc'[t] = "u_load" /\ res'[t] \in {0, 1, Nil, Err})
          /\ (pc[t] = "u_load" /\ pc'[t] # "u_load") =>
                IF regMap[hnd[t]] = 0
                THEN pc'[t] = "idle"
                ELSE pc'[t] = "u_rm" /\ ent'[t] = regMap[hnd[t]]
          /\ (pc[t] = "u_rm" /\ pc'[t] # "u_rm") =>
                /\ pc'[t] = "u_chk"
                /\ ents'[ent[t]].ids = removeGoroutineId(ents[ent[t]].ids, t)
                /\ IndexOf(ents[ent[t]].ids, t) # 0 =>
                      IF ents[ent[t]].ids[IndexOf(ents[ent[t]].ids, t)][2] = 1
                      THEN IndexOf(ents'[ent[t]].ids, t) = 0
                      ELSE ents'[ent[t]].ids[IndexOf(ents'[ent[t]].ids, t)][2] =
                              ents[ent[t]].ids[IndexOf(ents[ent[t]].ids, t)][2] - 1
          /\ (pc[t] = "u_chk" /\ pc'[t] # "u_chk") =>
                pc'[t] = IF ents[ent[t]].ids = <<>> THEN "u_cancel" ELSE "idle"
          /\ (pc[t] = "u_cancel" /\ pc'[t] # "u_cancel") =>
                /\ pc'[t] = "u_del"
                /\ ents[ent[t]].cancel # 0 =>
                      \/ timers'[ents[ent[t]].cancel].pc = "free"
                      \/ timers'[ents[ent[t]].cancel].cancelled
          /\ (pc[t] = "u_del" /\ pc'[t] # "u_del") =>
                (pc'[t] = "idle" /\ regMap'[hnd[t]] = 0)]_vars

\* an Unlock whose script failed with a transport error has taken its caller off the
\* entry, has cancelled the timer and is about to delete the entry
C28_FailedUnlockCancels ==
    /\ pc[Owner] = "u_del"
    /\ res[Owner] = Err
    /\ \A k \in TimerIds : timers[k].pc = "free" \/ timers[k].cancelled

\* ---------------------------------------------------------------- two handles

\* Unlock() through the handle h
UnlockThrough(t, h) ==
    /\ held[t] > 0
    /\ UnlockContext_start(t, h)
    /\ UNCHANGED <<scen, aside>>

\* two GetLock calls of one client for one name: one task locks through the first
\* handle and unlocks through either, the other tasks only ask for the lock; no
\* task asks for it while the entry lists it MaxHold times
NextHandles ==
    \/ \E t \in Tasks : (\A h \in Handles : CountOf(h, t) < MaxHold) /\ Lock(t)
    \/ \E h \in AllHandles : UnlockThrough(Owner, h)
    \/ Core

SpecHandles == InitLock /\ [][NextHandles]_vars

\* the handle h has an entry stored that lists the task t
Listed(h, t) == regMap[h] # 0 /\ IndexOf(ents[regMap[h]].ids, t) # 0

\* C29: the handles of one client for one name share one registry entry: an
\* Unlock, whichever handle it goes through, finds the entry that lists its
\* caller whenever a handle has one stored, and goes on to take the caller off it
\* (and so to cancel the timer when nobody is left).
C29_SharedRegistry ==
    [][\A t \in Tasks :
          (pc[t] = "u_load" /\ pc'[t] # "u_load" /\ \E h \in AllHandles : Listed(h, t)) =>
              /\ pc'[t] = "u_rm"
              /\ IndexOf(ents[ent'[t]].ids, t) # 0]_vars

\* ---------------------------------------------------------------- the lock's hash

\* the tasks that have a field in the hash
Owners == {t \in Tasks : hash[t] # 0}

\* the acquire script of task t has answered nil, its unlock script 0 or 1
Acquired(t) == pc[t] = "select" /\ pc'[t] = "sched"
Released(t) == pc[t] = "idle" /\ pc'[t] = "u_load" /\ res'[t] \in {0, 1}

\* the key's time to live runs out
Expired == ttl > 0 /\ ttl' = 0 /\ UNCHANGED pc

\* C30: the hash of the reentrant lock has at most one field, with a counter above
\* zero, and the counter is what the store has recorded of its owner: every
\* successful acquire adds one to the caller's field (creating it), every release
\* takes one off (the field, and with it the hash, is gone at zero), and nothing
\* else changes the hash except that the record is deleted with the key when its
\* time to live runs out. So the hash exists exactly while an owner has more
\* acquires than releases on record.
C30_HashRecordsHolds ==
    /\ [](Cardinality(Owners) <= 1 /\ \A t \in Tasks : hash[t] >= 0)
    /\ [][/\ \A t \in Tasks : Acquired(t) => hash' = [hash EXCEPT ![t] = @ + 1]
          /\ \A t \in Tasks :
                Released(t) => (hash[t] > 0 /\ hash' = [hash EXCEPT ![t] = @ - 1])
          /\ hash' # hash =>
                \/ \E t \in Tasks : Acquired(t) \/ Released(t)
                \/ Expired /\ hash' = NoHash]_vars

\* the owner has acquired twice and released once: its counter is back to one and
\* the hash is still there
C30_ReleasedOnceOfTwo ==
    /\ pc[Owner] = "u_load"
    /\ res[Owner] = 0
    /\ hash[Owner] = 1
    /\ KeyExists

\* ---------------------------------------------------------------- the key's expiry

\* the reentrant lock or the mutex, every way the key can change: locks, reentrant
\* locks, unlocks, renewals, a failing connection and the passing of time
SpecKey == Init /\ [][NextPaths]_vars

\* C31: a key that exists has a time to live of at most the lease and never none:
\* every step that creates or changes the key and leaves it in the store, and
\* every renewal that finds it, sets the time to live to the lease, and otherwise
\* the time to live only runs down, the key being deleted when it reaches zero.
C31_KeyHasLease ==
    /\ [](KeyExists => ttl \in 1..Lease)
    /\ [][/\ ((hash' # hash \/ str' # str) /\ KeyExists') => ttl' = Lease
          /\ \A k \in TimerIds :
                (timers[k].pc = "renewcall" /\ timers'[k].pc = "resched") =>
                    (KeyExists /\ ttl' = Lease)
          /\ ttl' # ttl =>
                \/ ttl' = Lease /\ KeyExists'
                \/ ttl' = ttl - 1 /\ UNCHANGED pc /\ (KeyExists' <=> KeyExists /\ ttl' > 0)
                \/ ttl' = 0 /\ ~KeyExists']_vars

\* the connection of the holder is gone and its key is in its last period
C31_DeadHolderKeyRunsOut == KeyExists /\ ~storeUp /\ ttl = 1 /\ held[Owner] > 0

\* ---------------------------------------------------------------- the unlock message

\* the unlock script of task t runs in this step
Unlocks(t) == pc[t] = "idle" /\ pc'[t] = "u_load" /\ storeUp

\* C32: the unlock message is published exactly by the unlock script that deletes
\* the key, in the same step and with the key already gone: an unlock that leaves
\* the counter above zero answers 0, sets the time to live and publishes nothing;
\* an unlock by a task that is not the owner answers none, changes nothing and
\* publishes nothing; the last unlock of the owner answers 1, deletes the key and
\* reaches every open subscription; and no other step adds a message.
C32_PublishOnDelete ==
    [][/\ \A t \in Tasks : Unlocks(t) =>
             /\ res'[t] \in {0, 1, Nil}
             /\ res'[t] = 0 =>
                   /\ kind = "lock" /\ hash[t] > 1
                   /\ hash' = [hash EXCEPT ![t] = @ - 1]
                   /\ ttl' = Lease
                   /\ msgs' = msgs
             /\ res'[t] = Nil =>
                   /\ IF kind = "lock" THEN hash[t] = 0 ELSE str # t
                   /\ UNCHANGED <<store, msgs>>
             /\ res'[t] = 1 =>
                   /\ IF kind = "lock" THEN hash[t] = 1 ELSE str = t
                   /\ ~KeyExists'
                   /\ \A u \in Tasks : sub[u] => msgs'[u] = Min(msgs[u] + 1, MaxMsgs)
       /\ (\E u \in Tasks : msgs'[u] > msgs[u]) =>
             (~KeyExists' /\ \E t \in Tasks : Unlocks(t) /\ res'[t] = 1)]_vars

\* the owner's last unlock has just answered 1: a waiter has the message and there
\* is no key
C32_WaiterToldAfterDelete ==
    /\ pc[Owner] = "u_load" /\ res[Owner] = 1
    /\ ~KeyExists
    /\ \E u \in Tasks \ {Owner} : pc[u] = "select" /\ msgs[u] > 0

\* ---------------------------------------------------------------- an abandoned key

\* the tag g owns the key
Owns(g) == IF kind = "lock" THEN hash[g] > 0 ELSE str = g

\* a goroutine of another process acquires the free lock (its tryLockInner script
\* runs) before any call of this process, and then stops: it never unlocks and its
\* process renews nothing
Stranger_tryLockInner ==
    /\ \A t \in Tasks : phase[t] = "free"
    /\ ~KeyExists
    /\ storeUp
    /\ hash' = tryLockInner(Stranger).hash
    /\ str' = tryLockInner(Stranger).str
    /\ ttl' = tryLockInner(Stranger).ttl
    /\ ev' = NoEv
    /\ UNCHANGED <<kind, storeUp, pubsub, reg, task, scen, aside>>

\* every goroutine of this process calls LockContext once, with a context that
\* can end, and Unlock once after it got the lock
Orphan_Lock(t) ==
    /\ phase[t] = "free"
    /\ \E h \in Handles : LockContext_start(t, h, "live")
    /\ phase' = [phase EXCEPT ![t] = "lock"]
    /\ UNCHANGED <<a, tmp, aside>>

Orphan_Unlock(t) ==
    /\ phase[t] = "lock" /\ pc[t] = "idle" /\ held[t] > 0
    /\ \E h \in Handles : UnlockContext_start(t, h)
    /\ phase' = [phase EXCEPT ![t] = "unlock"]
    /\ UNCHANGED <<a, tmp, aside>>

NextOrphan ==
    \/ Stranger_tryLockInner
    \/ \E t \in Tasks : Orphan_Lock(t)
    \/ \E t \in Tasks : Orphan_Unlock(t)
    \/ \E t \in Tasks : CancelCtx(t)
    \/ \E t \in Tasks : LockContext_ctxDone(t)
    \/ Core

\* a goroutine inside a call takes its next step, a timer goroutine too, and time
\* passes when all of them wait
SpecOrphan ==
    /\ Init
    /\ [][NextOrphan]_vars
    /\ \A t \in Tasks : WF_vars(CallStep(t)) /\ WF_vars(LockContext_ctxDone(t))
    /\ \A k \in TimerIds : WF_vars(TimerStep(k))
    /\ WF_vars(Tick)

\* C33: a waiter tries again when the time to live it was told has passed, with or
\* without a message: its remaining wait is never below zero nor above the time
\* to live of the key it waits for; so, when the key belongs to a holder that has
\* stopped, a waiting task whose context stays live sees the lock acquired by a
\* task of its process (itself, or another waiter before it).
C33_RetryAfterTtl ==
    /\ [](\A t \in Tasks : pc[t] = "select" =>
             /\ wt[t] >= 0
             /\ KeyExists => wt[t] <= ttl)
    /\ \A t \in Tasks :
          (pc[t] = "select" /\ Owns(Stranger)) ~>
              ((\E u \in Tasks : Owns(u)) \/ ctx[t] = "done")

\* a task waits for the key of the stopped holder with no message on its channel
C33_WaitsForAbandonedKey ==
    \E t \in Tasks :
        pc[t] = "select" /\ wt[t] > 0 /\ msgs[t] = 0 /\ ctx[t] = "live" /\ Owns(Stranger)

\* ---------------------------------------------------------------- registry counts

\* C34: between its calls, the count an entry records for a task is the number of
\* its successful acquires not yet matched by an Unlock call (and so the counter
\* of its tag in the store whenever that counter is the task's own count of its
\* holds); and a task whose Unlock has returned and whose tag is not in the store
\* is in no entry.
C34_RegistryCount ==
    \A t \in Tasks : \A h \in Handles :
        /\ (pc[t] = "idle" /\ CountOf(h, t) > 0) =>
              /\ CountOf(h, t) = held[t]
              /\ hash[t] = held[t] => CountOf(h, t) = hash[t]
        /\ (pc[t] = "idle" /\ hash[t] = 0 /\ ev \in {<<t, "unlocked">>, <<t, "notowner">>}) =>
              CountOf(h, t) = 0

\* ---------------------------------------------------------------- renewals

C36_UnlockOwnKeyOnly ==
    [][\A t \in Tasks :
          /\ Unlocks(t) =>
                IF Owns(t)
                THEN res'[t] \in {0, 1}
                ELSE res'[t] = Nil /\ UNCHANGED <<store, msgs>>
          /\ (pc[t] \in UnlockPcs /\ pc'[t] # pc[t]) => UNCHANGED <<store, msgs>>
          /\ (pc[t] \in UnlockPcs /\ pc'[t] = "idle") =>
                (res[t] = Nil <=> ev' = <<t, "notowner">>)]_vars

\* the holder's key has expired and another task owns the lock; the holder's
\* Unlock has got none from its script
C36_UnlockAfterTakeover ==
    /\ pc[Owner] = "u_load" /\ res[Owner] = Nil
    /\ \E u \in Tasks \ {Owner} : Owns(u) /\ ttl > 0

\* ---------------------------------------------------------------- permit accounting

\* C37: with a configuration that stays, a bucket whose value key exists holds an
\* available count that is not negative and that, added to the permits of all
\* members of its permits set, is the rate exactly: grants, denials and sweeps
\* neither lose nor create a permit.
C37_PermitsConserved ==
    \A b \in Buckets :
        val[b] # <<>> =>
            /\ val[b][1] >= 0
            /\ val[b][1] + SumPermits(perm[b]) = Rate

\* a request was denied by a script that swept one member and kept a younger one:
\* the bucket is empty again and both permits are accounted for
C37_DeniedAfterSweep ==
    /\ Rate = 2 /\ Interval = 2 /\ ~PerClient
    /\ ret.op = "TryAcquirePermits" /\ ~ret.ok /\ ~ret.err
    /\ val[Shared] = <<1>>
    /\ perm[Shared] = <<<<1, 1>>>>
    /\ clk = 0

\* ---------------------------------------------------------------- denied requests

\* the bucket of client cl after the sweep of a script run now, and nothing else
SweptVal(cl) ==
    LET k == keysOf(cl)
        released == SumPermits(zrangebyscore(perm[k], Interval))
    IN  IF released > 0 THEN [val EXCEPT ![k] = <<val[k][1] + released>>] ELSE val

SweptPerm(cl) ==
    LET k == keysOf(cl)
        released == SumPermits(zrangebyscore(perm[k], Interval))
    IN  IF released > 0
        THEN [perm EXCEPT ![k] = SelectSeq(perm[k], LAMBDA m : m[1] < Interval)]
        ELSE perm

MaxZero == 1

\* TryAcquirePermits takes any int64 and the script accepts every request up to
\* the rate: a request of no permits is granted and recorded as a member like any
\* other
ZeroSizes == 0..MaxRate

\* ages are counted up to the interval plus the 3 ms of the script, where the
\* delay computed from a member is zero or less under every configuration
LongAge == MaxInterval + Jitter

Aged(s) == [i \in 1..Len(s) |-> <<Min(s[i][1] + 1, LongAge), s[i][2]>>]

Zeros(s) == Len(SelectSeq(s, LAMBDA m : m[2] = 0))

\* one millisecond passes while nobody is in a blocking call
LongMillisecond ==
    /\ call = [c \in Callers |-> NoCall]
    /\ perm' = [b \in Buckets |-> Aged(perm[b])]
    /\ grants' = [cl \in Clients |-> [g \in 0..(MaxInterval - 1) |->
                     IF g = 0 THEN 0 ELSE grants[cl][g - 1]]]
    /\ ret' = NoRet
    /\ UNCHANGED <<cfg, val, call, clk, apart>>

\* single calls of any size from 0 to the rate, at any time
NextZero ==
    \/ \E cl \in Clients, p \in ZeroSizes :
           /\ p = 0 => Zeros(perm[keysOf(cl)]) < MaxZero
           /\ TryAcquirePermits(cl, p)
    \/ \E cl \in Clients : AvailablePermits(cl)
    \/ LongMillisecond

SpecZero == InitLimiter /\ [][NextZero]_vars

\* what the script answers to a denied request of p permits by client cl: the set
\* it leaves is not empty, the delay is positive and at least interval - (now -
\* firstScore), so that the first member is expired when the delay has passed
DelayGood(cl, p) ==
    LET o == tryAcquireScript(cl, p)
        set == o.perm[keysOf(cl)]
    IN  /\ set # <<>>
        /\ o.res[1] > 0
        /\ o.res[1] >= Interval - set[1][1]
        /\ set[1][1] + o.res[1] >= Interval

\* C39: every TryAcquirePermits call that is denied got a delay that is positive
\* and at least interval - (now - firstScore) from a permits set that is not
\* empty; a retry that many milliseconds later finds the first member expired.
C39_DelayPositive ==
    [][\A cl \in Clients : \A p \in ZeroSizes \cup PermitSizes :
          (TryAcquirePermits(cl, p) /\ ~ret'.ok /\ ~ret'.err) => DelayGood(cl, p)]_vars

\* ---------------------------------------------------------------- Acquire without a timeout

\* a single-shot request by any client
OtherRequest == \E cl \in Clients, p \in PermitSizes : TryAcquirePermits(cl, p)

\* a limiter whose configuration stays: one caller in AcquirePermits, single-shot
\* requests by the clients at any time
NextAcquire ==
    \/ \E c \in Blockers, p \in PermitSizes : AcquirePermits_start(c, p)
    \/ \E c \in Blockers : TryAcquirePermitsWithTimeout_eval(c)
    \/ \E c \in Blockers : TryAcquirePermitsWithTimeout_wake(c)
    \/ OtherRequest
    \/ Millisecond

\* the goroutine in AcquirePermits is scheduled, and time passes
SpecAcquire ==
    /\ InitLimiter
    /\ [][NextAcquire]_vars
    /\ \A c \in Blockers : WF_vars(TryAcquirePermitsWithTimeout_eval(c))
    /\ \A c \in Blockers : WF_vars(TryAcquirePermitsWithTimeout_wake(c))
    /\ WF_vars(Millisecond)

InAcquire(c) == call[c].op = "AcquirePermits" /\ call[c].pc # "idle"

\* C40: a step of AcquirePermits that returns either returns an error of the
\* script or returns nil in the very step whose script call granted the permits
\* (never false without an error); a script call that is denied is followed by a
\* sleep of the delay the store computed and then by another script call.  With
\* p <= rate, either the other callers go on making requests forever or the call
\* returns nil.
C40_AcquireBlocksUntilGranted ==
    /\ [][\A c \in Blockers : InAcquire(c) =>
            LET o == tryAcquireScript(clientOf(c), call[c].permits) IN
            /\ call'[c].pc = "idle" =>
                  /\ TryAcquirePermitsWithTimeout_eval(c)
                  /\ ret'.op = "AcquirePermits"
                  /\ ret'.err = o.err
                  /\ ret'.ok = Granted(o)
                  /\ ret'.err \/ ret'.ok
            /\ (TryAcquirePermitsWithTimeout_eval(c) /\ ~o.err /\ o.res # <<>>) =>
                  /\ call'[c].pc = "sleep"
                  /\ call'[c].nap = o.res[1]
                  /\ call'[c].after = "retry"
            /\ TryAcquirePermitsWithTimeout_wake(c) => call'[c].pc = "eval"]_vars
    /\ \A c \in Blockers :
          \/ []<><<OtherRequest
                     \/ \E d \in Blockers \ {c}, p \in PermitSizes :
                            AcquirePermits_start(d, p)>>_vars
          \/ (InAcquire(c) /\ call[c].permits <= Rate)
                 ~> (call[c].pc = "idle" /\ ret.op = "AcquirePermits"
                        /\ ret.ok /\ ~ret.err)

\* the call was denied and has slept the delay; every member of its bucket has
\* expired meanwhile, so the script call it is about to make will grant
C40_SleptUntilExpired ==
    \E c \in Blockers :
        /\ InAcquire(c)
        /\ call[c].pc = "sleep" /\ call[c].nap = 0 /\ call[c].after = "retry"
        /\ perm[keysOf(clientOf(c))] # <<>>
        /\ \A i \in 1..Len(perm[keysOf(clientOf(c))]) :
               perm[keysOf(clientOf(c))][i][1] >= Interval

====
